---- MODULE Spec2Model ----
(***************************************************************************)
(* Multi-tenant commerce transaction pipeline of 3pillars-backend:         *)
(* tenant resolution, cart -> order conversion with stock decrement,       *)
(* payment webhook reconciliation and the order life cycle.                *)
(*                                                                         *)
(* Money is kept in cents (DecimalField with two decimal places).          *)
(* A nullable column is <<>> when NULL and <<v>> when it holds v.          *)
(***************************************************************************)
EXTENDS Integers, Sequences, FiniteSets, TLC

\* ------------------------------------------------------------ bounds
MaxStock == 2
MaxQty == 2
MaxMembers == 1
MaxCreated == 2

\* ------------------------------------------------------------ universe
Companies == {"c1", "c2"}
Users == {"alice", "bob", "carol", "root"}
Anonymous == "anonymous"
Products == {"p1", "p2"}
CartIds == {"k1", "k2"}
OrderIds == {"o1", "o2"}

None == <<>>
Some(v) == <<v>>
NoCompany == "no_company"
Absent == "absent"
Bogus == "bogus_id"
Malformed == "not_a_uuid"
Raised == "raised"

\* Company rows ordered by Meta.ordering = ['-created_at']: the larger rank is
\* the more recently created company, which .first() returns.
CreatedAt == [c \in Companies |-> IF c = "c1" THEN 1 ELSE 2]

VARIABLES
    owner,        \* EcommerceCompany.owner
    users,        \* EcommerceCompany.users (many-to-many members)
    is_superuser, \* the set of accounts with User.is_superuser
    crm,          \* the CRM: Company rows, each user's groups, the accounts with is_chief
    products,     \* EcommerceProduct rows
    carts,        \* Cart rows with their CartItem rows
    orders,       \* Order rows with their OrderItem rows
    checkout,     \* create_from_cart requests between validation and the atomic block
    ledger,       \* per product: the stock it started with and the quantity in the orders created
    created,      \* the number of orders created so far
    integration,  \* CompanyIntegrationSettings rows
    clock,        \* timezone.now()
    gateway,      \* the payment provider: checkout sessions issued, the event processed last
    resp          \* the response of the last handled request

tenancy == <<owner, users, is_superuser, crm>>
db == <<products, carts, orders>>
shop == <<checkout, ledger, created>>
payment == <<integration, clock, gateway>>
vars == <<owner, users, is_superuser, crm, products, carts, orders, checkout, ledger, created,
          integration, clock, gateway, resp>>

\* ------------------------------------------------------------ tenant resolver
\* QuerySet.first() under the model's default ordering.
First(S) == IF S = {} THEN NoCompany
            ELSE CHOOSE c \in S : \A d \in S : CreatedAt[d] <= CreatedAt[c]

is_authenticated(u) == u \in Users

get_user_company(u) ==
    IF ~is_authenticated(u) THEN NoCompany
    ELSE IF u \in is_superuser THEN NoCompany
    ELSE LET owned == First({c \in Companies : owner[c] = u})
         IN  IF owned # NoCompany THEN owned
             ELSE First({c \in Companies : u \in users[c]})

\* The header branch of get_company_from_request: the company named by
\* X-Company-Id when it exists and the caller may use it, else NoCompany.
HeaderCompany(u, header) ==
    IF header \in Companies
          /\ (u \in is_superuser \/ owner[header] = u \/ u \in users[header])
    THEN header ELSE NoCompany

\* EcommerceCompany.objects.get(id=...) on the UUID primary key: Bogus is a
\* well-formed id of no company (DoesNotExist, which the resolver catches);
\* Malformed is no UUID at all (UUIDField.to_python raises
\* django.core.exceptions.ValidationError, which is neither DoesNotExist nor
\* ValueError, so the resolver lets it escape).
get_company_from_request(req) ==
    IF ~is_authenticated(req.user) THEN NoCompany
    ELSE IF req.header = Malformed THEN Raised
    ELSE IF req.header # Absent /\ HeaderCompany(req.user, req.header) # NoCompany
         THEN HeaderCompany(req.user, req.header)
    ELSE IF req.user \in is_superuser /\ req.query # Absent
         THEN (IF req.query = Malformed THEN Raised
               ELSE IF req.query \in Companies THEN req.query ELSE NoCompany)
    ELSE get_user_company(req.user)

Requests == [user : Users \cup {Anonymous},
             header : Companies \cup {Absent, Bogus, Malformed},
             query : Companies \cup {Absent, Bogus, Malformed}]

\* A request that carries the tenant header only.
Req(u, h) == [user |-> u, header |-> h, query |-> Absent]

\* ------------------------------------------------------------ responses
Response(op, req, company, code, out) ==
    [op |-> op, req |-> req, company |-> company, code |-> code, out |-> out]

NoResp == Response("none", Req(Anonymous, Absent), NoCompany, "none", {})

\* ------------------------------------------------------------ resolver spec
Resolve(req) ==
    /\ resp' = Response("resolve", req, get_company_from_request(req), "OK", {})
    /\ UNCHANGED <<tenancy, db, shop, payment>>

\* ------------------------------------------------------------ data model
\* Truthiness of a nullable integer column, as Python's `if x:` tests it:
\* NULL and 0 are both false.
Truthy(v) == v # None /\ v[1] # 0

Statuses == {"pending", "paid", "processing", "shipped", "delivered", "cancelled", "refunded"}

NoLine == [quantity |-> 0, price |-> 0]
NoLines == [p \in Products |-> NoLine]
Lines(items) == {p \in Products : items[p].quantity > 0}

\* Round n/d to the nearest integer, ties to even: the quantization of a
\* DecimalField(decimal_places=2) value when the row is written.
RoundHalfEven(n, d) ==
    LET q == n \div d
        r == n % d
    IN  IF 2 * r < d THEN q
        ELSE IF 2 * r > d THEN q + 1
        ELSE IF q % 2 = 0 THEN q ELSE q + 1

RECURSIVE SumOver(_, _)
SumOver(f, S) == IF S = {} THEN 0
                 ELSE LET x == CHOOSE x \in S : TRUE
                      IN  f[x] + SumOver(f, S \ {x})

FREE_SHIPPING_THRESHOLD == 20000
VatPercent == 15
StandardRate == 5000
ExpressRate == 10000
SameDayRate == 15000
PudoRate == 4000

\* One rate for every delivery method.
flat_shipping(subtotal, delivery_method) == StandardRate

\* Cart._calculate_shipping
calculate_shipping(subtotal, delivery_method) ==
    IF subtotal >= FREE_SHIPPING_THRESHOLD /\ delivery_method = "standard" THEN 0
    ELSE CASE delivery_method = "standard" -> StandardRate
           [] delivery_method = "express" -> ExpressRate
           [] delivery_method = "same-day" -> SameDayRate
           [] delivery_method = "pudo" -> PudoRate
           [] OTHER -> StandardRate

\* CartItem.save / OrderItem.save: subtotal = price * quantity
LineSubtotal(line) == line.price * line.quantity

\* The totals left as they are.
stale_totals(cart) == cart

\* Cart.calculate_totals followed by Cart.save(): the four totals as stored.
calculate_totals(cart) ==
    LET subtotal == SumOver([p \in Products |-> LineSubtotal(cart.items[p])], Lines(cart.items))
        shipping == calculate_shipping(subtotal, cart.delivery_method)
        taxed == (subtotal - cart.discount) * VatPercent
    IN  [cart EXCEPT !.subtotal = subtotal,
                     !.shipping = shipping,
                     !.tax = RoundHalfEven(taxed, 100),
                     !.total = RoundHalfEven((subtotal + shipping - cart.discount) * 100 + taxed, 100)]

NoCart == [exists |-> FALSE, company |-> NoCompany, user |-> Anonymous, items |-> NoLines,
           delivery_method |-> "none", discount |-> 0,
           subtotal |-> 0, shipping |-> 0, tax |-> 0, total |-> 0]

\* A Cart row as Cart.objects.create leaves it: the column defaults.
NewCart(company, user) == [NoCart EXCEPT !.exists = TRUE, !.company = company, !.user = user]

NoOrder == [exists |-> FALSE, company |-> NoCompany, customer |-> Anonymous,
            order_number |-> "", status |-> "none", payment_status |-> "none",
            subtotal |-> 0, shipping |-> 0, tax |-> 0, discount |-> 0, total |-> 0,
            items |-> NoLines,
            yoco_checkout_id |-> "NULL", yoco_payment_id |-> "NULL", transaction_id |-> "NULL",
            waybill_number |-> "NULL", tracking_number |-> "NULL", collection_code |-> "NULL",
            paid_at |-> None, shipped_at |-> None, delivered_at |-> None, cancelled_at |-> None]

\* A company without a CompanyIntegrationSettings row, and a row as the
\* column defaults leave it (no Yoco keys, no webhook secret, no courier keys).
NoSettings == [exists |-> FALSE, yoco_secret_key |-> FALSE, yoco_webhook_secret |-> FALSE,
               courier_guy_api_key |-> FALSE]
BlankSettings == [NoSettings EXCEPT !.exists = TRUE]

NoGateway == [issued |-> {}, last |-> {}]

\* No integration is configured, the clock stands at 0 and the payment
\* provider has issued nothing.
InitPaymentIdle ==
    /\ integration = [c \in Companies |-> NoSettings]
    /\ clock = 0
    /\ gateway = NoGateway

\* The id of a row to be inserted: any id no row of the table holds.
FreeSlot(table, Ids) == IF \E i \in Ids : ~table[i].exists
                        THEN CHOOSE i \in Ids : ~table[i].exists
                        ELSE "none"

\* ------------------------------------------------------------ checkout
Idle == [pc |-> "idle", company |-> NoCompany, id |-> "none", cart |-> NoCart]

\* The stock test applied to one cart line (create_from_cart, add_item).
LineError(product, quantity) ==
    IF ~product.in_stock THEN "OUT_OF_STOCK"
    ELSE IF product.track_inventory /\ Truthy(product.stock_quantity)
            /\ quantity > product.stock_quantity[1]
         THEN "INSUFFICIENT_STOCK"
    ELSE "OK"

\* Cart.objects.get(company=company, user=user): the matching rows.
CartsOf(company, u) ==
    {k \in CartIds : carts[k].exists /\ carts[k].company = company /\ carts[k].user = u}

CheckoutRespond(u, h, company, code, out) ==
    /\ resp' = Response("create_from_cart", Req(u, h), company, code, out)
    /\ UNCHANGED <<tenancy, db, shop, payment>>

\* create_from_cart up to the atomic block: tenant, cart lookup, empty-cart
\* test and the stock validation loop over the cart's lines.
create_from_cart_validate(u, h) ==
    /\ checkout[u].pc = "idle"
    /\ LET company == get_company_from_request(Req(u, h))
           mine == CartsOf(company, u)
       IN  IF company = NoCompany
           THEN CheckoutRespond(u, h, company, "COMPANY_NOT_FOUND", {})
           ELSE IF mine = {}
           THEN CheckoutRespond(u, h, company, "CART_NOT_FOUND", {})
           ELSE IF Cardinality(mine) > 1
           THEN CheckoutRespond(u, h, company, "SERVER_ERROR", {})
           ELSE LET k == CHOOSE k \in mine : TRUE
                    cart == carts[k]
                    failing == {p \in Lines(cart.items) :
                                   LineError(products[p], cart.items[p].quantity) # "OK"}
                IN  IF Lines(cart.items) = {}
                    THEN CheckoutRespond(u, h, company, "CART_EMPTY", {})
                    ELSE IF failing # {}
                    THEN \E p \in failing :
                            CheckoutRespond(u, h, company,
                                LineError(products[p], cart.items[p].quantity), {})
                    ELSE /\ checkout' = [checkout EXCEPT ![u] =
                               [pc |-> "validated", company |-> company, id |-> k, cart |-> cart]]
                         /\ UNCHANGED <<tenancy, db, ledger, created, payment, resp>>

\* Order.objects.create(...) of create_from_cart: totals copied from the cart
\* object read before the atomic block. Order defines no save(), so
\* order_number keeps the CharField default ''.
NewOrder(company, u, cart) ==
    [NoOrder EXCEPT !.exists = TRUE, !.company = company, !.customer = u,
                    !.order_number = "",
                    !.status = "pending", !.payment_status = "pending",
                    !.subtotal = cart.subtotal, !.shipping = cart.shipping,
                    !.tax = cart.tax, !.discount = cart.discount, !.total = cart.total]

\* unique_together = [['company', 'order_number']] on Order.
OrderNumberTaken(table, company, number) ==
    \E x \in OrderIds : table[x].exists /\ table[x].company = company
                        /\ table[x].order_number = number

\* One pass of the loop over cart.items.all(): the OrderItem row and the
\* inventory update of that line's product.
OrderLine(d, o, k, p) ==
    LET line == d.carts[k].items[p]
        prod == d.products[p]
        left == prod.stock_quantity[1] - line.quantity
    IN  [d EXCEPT !.orders[o].items[p] = line,
                  !.products[p] =
                      IF prod.track_inventory /\ Truthy(prod.stock_quantity)
                      THEN [prod EXCEPT !.stock_quantity = Some(left),
                                        !.in_stock = IF left <= 0 THEN FALSE ELSE @]
                      ELSE prod]

RECURSIVE OrderLines(_, _, _, _)
OrderLines(d, o, k, S) ==
    IF S = {} THEN d
    ELSE LET p == CHOOSE p \in S : TRUE
         IN  OrderLines(OrderLine(d, o, k, p), o, k, S \ {p})

\* cart.items.all().delete(); cart.calculate_totals(); cart.save() on the cart
\* object read before the atomic block.
ClearCart(d, k, cart) ==
    [d EXCEPT !.carts[k] = calculate_totals([cart EXCEPT !.items = NoLines])]

\* transaction.atomic() without the rollback: what ran before the failure stays.
transaction_autocommit(pre, post, ok) == post

\* with transaction.atomic(): the block's writes are kept when it completes
\* and undone when it raises.
transaction_atomic(pre, post, ok) == IF ok THEN post ELSE pre

\* Where the atomic block may raise: at Order.objects.create, or inside the
\* loop after the lines in `done` were handled (OrderItem insert,
\* product.save() running full_clean(), a database error), or nowhere.
FaultPoints(lines) == [at : {"none", "loop", "clear"}, done : SUBSET lines]

\* The atomic block of create_from_cart.
create_from_cart_atomic(u) ==
    /\ checkout[u].pc = "validated"
    /\ created < MaxCreated
    /\ LET ck == checkout[u]
           k == ck.id
           o == FreeSlot(orders, OrderIds)
           pre == [products |-> products, carts |-> carts, orders |-> orders]
           lines == Lines(carts[k].items)
       IN  /\ o # "none"
           /\ \E f \in FaultPoints(lines) :
                LET taken == OrderNumberTaken(orders, ck.company, "")
                    inserted == [pre EXCEPT !.orders[o] = NewOrder(ck.company, u, ck.cart)]
                    looped == OrderLines(inserted, o, k, IF f.at = "loop" THEN f.done ELSE lines)
                    post == IF taken THEN pre
                            ELSE IF f.at = "none" THEN ClearCart(looped, k, ck.cart)
                            ELSE looped
                    ok == ~taken /\ f.at = "none"
                    d == transaction_atomic(pre, post, ok)
                IN  /\ f.at = "none" => f.done = lines
                    /\ f.at = "clear" => f.done = lines
                    /\ f.at = "loop" => f.done # lines
                    /\ products' = d.products
                    /\ carts' = d.carts
                    /\ orders' = d.orders
                    /\ checkout' = [checkout EXCEPT ![u] = Idle]
                    /\ ledger' = IF ok
                                 THEN [p \in Products |->
                                        [ledger[p] EXCEPT !.sold = @ + carts[k].items[p].quantity]]
                                 ELSE ledger
                    /\ created' = IF ok THEN created + 1 ELSE created
                    /\ resp' = Response("create_from_cart", Req(u, Absent), ck.company,
                                        IF ok THEN "CREATED" ELSE "SERVER_ERROR",
                                        IF taken THEN {"insert"} ELSE {f.at})
                    /\ UNCHANGED <<tenancy, payment>>

\* ------------------------------------------------------------ cart endpoints
CartRespond(op, u, h, company, code, out) ==
    /\ resp' = Response(op, Req(u, h), company, code, out)
    /\ UNCHANGED <<tenancy, db, shop, payment>>

\* The line re-priced at the product's current price on every add.
AddToLineRepriced(line, product, quantity) ==
    [quantity |-> line.quantity + quantity, price |-> product.price]

\* CartItem.objects.get_or_create(cart, product, defaults={price, quantity}),
\* then `cart_item.quantity + quantity` on a line that was already there.
AddToLine(line, product, quantity) ==
    IF line.quantity = 0
    THEN [quantity |-> quantity, price |-> product.price]
    ELSE [line EXCEPT !.quantity = line.quantity + quantity]

\* CartViewSet.add_item
add_item(u, h, p, quantity) ==
    LET company == get_company_from_request(Req(u, h))
        product == products[p]
        found == {k \in CartIds : carts[k].exists /\ carts[k].company = company}
    IN  IF company = NoCompany
        THEN CartRespond("add_item", u, h, company, "COMPANY_NOT_FOUND", {})
        ELSE IF product.company # company
        THEN CartRespond("add_item", u, h, company, "PRODUCT_NOT_FOUND", {})
        ELSE IF LineError(product, quantity) # "OK"
        THEN CartRespond("add_item", u, h, company, LineError(product, quantity), {})
        ELSE IF Cardinality(found) > 1
        THEN CartRespond("add_item", u, h, company, "SERVER_ERROR", {})
        ELSE LET k == IF found = {} THEN FreeSlot(carts, CartIds) ELSE CHOOSE k \in found : TRUE
                 cart == IF found = {} THEN NewCart(company, u) ELSE carts[k]
                 line == cart.items[p]
                 new_quantity == line.quantity + quantity
             IN  /\ k # "none"
                 /\ new_quantity <= MaxQty
                 /\ IF line.quantity > 0 /\ LineError(product, new_quantity) = "INSUFFICIENT_STOCK"
                    THEN CartRespond("add_item", u, h, company, "INSUFFICIENT_STOCK", {})
                    ELSE /\ carts' = [carts EXCEPT ![k] = calculate_totals(
                                [cart EXCEPT !.items[p] = AddToLine(line, product, quantity)])]
                         /\ resp' = Response("add_item", Req(u, h), company, "OK", {k})
                         /\ UNCHANGED <<tenancy, products, orders, shop, payment>>

\* IsCompanyMember.has_object_permission for a row that has a company.
has_object_permission(u, company) == owner[company] = u \/ u \in is_superuser

\* CartViewSet.get_queryset
CartQueryset(u, company) ==
    {k \in CartIds : carts[k].exists /\ carts[k].user = u
                     /\ (company # NoCompany => carts[k].company = company)}

\* PATCH /carts/{id}/ (ModelViewSet.partial_update with CartSerializer, whose
\* `company` field is writable).
cart_partial_update(u, h, k, c) ==
    LET company == get_company_from_request(Req(u, h))
    IN  IF k \notin CartQueryset(u, company)
        THEN CartRespond("cart_partial_update", u, h, company, "NOT_FOUND", {})
        ELSE IF ~has_object_permission(u, carts[k].company)
        THEN CartRespond("cart_partial_update", u, h, company, "FORBIDDEN", {})
        ELSE /\ carts' = [carts EXCEPT ![k].company = c]
             /\ resp' = Response("cart_partial_update", Req(u, h), company, "OK", {k})
             /\ UNCHANGED <<tenancy, products, orders, shop, payment>>

\* ------------------------------------------------------------ order endpoints
OrderRespond(op, u, h, company, code, out) ==
    /\ resp' = Response(op, Req(u, h), company, code, out)
    /\ UNCHANGED <<tenancy, db, shop, payment>>

\* OrderViewSet.get_queryset (without the optional query-string filters)
OrderQueryset(company) ==
    {o \in OrderIds : orders[o].exists /\ (company # NoCompany => orders[o].company = company)}

\* DELETE /orders/{id}/ (ModelViewSet.destroy; OrderItem rows cascade)
destroy_order(u, h, o) ==
    LET company == get_company_from_request(Req(u, h))
    IN  IF o \notin OrderQueryset(company)
        THEN OrderRespond("destroy_order", u, h, company, "NOT_FOUND", {})
        ELSE IF ~has_object_permission(u, orders[o].company)
        THEN OrderRespond("destroy_order", u, h, company, "FORBIDDEN", {})
        ELSE /\ orders' = [orders EXCEPT ![o] = NoOrder]
             /\ resp' = Response("destroy_order", Req(u, h), company, "OK", {o})
             /\ UNCHANGED <<tenancy, products, carts, shop, payment>>

\* ------------------------------------------------------------ checkout spec
Shoppers == {"alice", "bob"}
Headers == Companies \cup {Absent}
\* The product the shoppers of the checkout specification put in their carts.
Tracked == {"p1"}

\* The CRM without Company rows, groups or chiefs.
CrmIds == {"m1", "m2"}
Groups == {"g1", "g2"}
NoCrmCompany == [exists |-> FALSE, owner |-> Anonymous, full_name |-> ""]
NoCrm == [companies |-> [i \in CrmIds |-> NoCrmCompany],
          groups |-> [u \in Users |-> {}],
          is_chief |-> {}]

\* alice owns c1 and is a member of c2; bob owns c2 and is a member of c1;
\* carol belongs to no company; root is a superuser.
InitTenancy ==
    /\ owner = [c \in Companies |-> IF c = "c1" THEN "alice" ELSE "bob"]
    /\ users = [c \in Companies |-> IF c = "c1" THEN {"bob"} ELSE {"alice"}]
    /\ is_superuser = {"root"}
    /\ crm = NoCrm

\* The catalog: p1 is a stock-tracked product of c1, p2 a product of c2 that
\* does not track inventory (stock_quantity NULL = unlimited).
Catalog(n) ==
    [p \in Products |->
        IF p = "p1"
        THEN [company |-> "c1", track_inventory |-> TRUE, stock_quantity |-> Some(n),
              in_stock |-> TRUE, price |-> 5000]
        ELSE [company |-> "c2", track_inventory |-> FALSE, stock_quantity |-> None,
              in_stock |-> TRUE, price |-> 10000]]

InitCatalog(n) ==
    /\ products = Catalog(n)
    /\ ledger = [p \in Products |-> [initial |-> IF p = "p1" THEN n ELSE 0, sold |-> 0]]

InitProducts == \E n \in 0..MaxStock : InitCatalog(n)

Init ==
    /\ InitTenancy
    /\ InitProducts
    /\ carts = [k \in CartIds |-> NoCart]
    /\ orders = [o \in OrderIds |-> NoOrder]
    /\ checkout = [u \in Users |-> Idle]
    /\ created = 0
    /\ InitPaymentIdle
    /\ resp = NoResp

Next ==
    \/ \E u \in Shoppers, h \in Headers : create_from_cart_validate(u, h)
    \/ \E u \in Shoppers : create_from_cart_atomic(u)
    \/ \E u \in Shoppers, h \in Headers, p \in Tracked, q \in 1..MaxQty : add_item(u, h, p, q)
    \/ \E u \in Shoppers, h \in Headers, k \in CartIds, c \in Companies : cart_partial_update(u, h, k, c)

Spec == Init /\ [][Next]_vars

\* ------------------------------------------------------------ resolver spec
\* Any assignment of owners and of at most MaxMembers members per company.
InitResolve ==
    /\ owner \in [Companies -> {"alice", "bob", "root"}]
    /\ users \in [Companies -> {S \in SUBSET {"alice", "bob"} : Cardinality(S) <= MaxMembers}]
    /\ is_superuser = {"root"}
    /\ crm = NoCrm
    /\ InitCatalog(MaxStock)
    /\ carts = [k \in CartIds |-> NoCart]
    /\ orders = [o \in OrderIds |-> NoOrder]
    /\ checkout = [u \in Users |-> Idle]
    /\ created = 0
    /\ InitPaymentIdle
    /\ resp = NoResp

NextResolve == \E req \in Requests : Resolve(req)

SpecResolve == InitResolve /\ [][NextResolve]_vars

\* ------------------------------------------------------------ claims
\* A create_from_cart request of user u left its validation phase with a
\* positive result in this step.
PassedValidation(u) == checkout[u].pc = "idle" /\ checkout'[u].pc = "validated"

\* The atomic block of a create_from_cart request of user u ran in this step.
RanAtomicBlock(u) == checkout[u].pc = "validated" /\ checkout'[u].pc = "idle"

\* C1: for a stock-tracked product that started with N > 0 units, the
\* quantities of it in the successfully created orders never add up to more
\* than N, and its stock_quantity is never negative.
C1_StockConserved ==
    \A p \in Products :
        (products[p].track_inventory /\ ledger[p].initial > 0)
            => /\ ledger[p].sold <= ledger[p].initial
               /\ products[p].stock_quantity[1] >= 0

\* C2: when create_from_cart fails inside its atomic block, no Order or
\* OrderItem is left behind, every product keeps its stock_quantity and
\* in_stock, and every cart keeps its lines.
C2_FailureRollsBack ==
    [][\A u \in Users :
          (RanAtomicBlock(u) /\ resp'.code = "SERVER_ERROR")
              => /\ orders' = orders
                 /\ products' = products
                 /\ carts' = carts]_vars

\* C2 witness: the block failed after the Order row, every OrderItem and every
\* stock decrement had been written, and the cart still has its lines.
C2_Witness ==
    /\ resp.op = "create_from_cart"
    /\ resp.code = "SERVER_ERROR"
    /\ resp.out = {"clear"}
    /\ \E k \in CartIds : /\ carts[k].exists
                          /\ carts[k].user = resp.req.user
                          /\ carts[k].company = resp.company
                          /\ Lines(carts[k].items) # {}

\* C3: create_from_cart lets a cart through its validation only if the cart
\* has a line, every line's product is flagged available, and no line of a
\* stock-tracked product asks for more than the current stock_quantity
\* (a stock of 0 included).
C3_ValidationRejects ==
    [][\A u \in Users :
          PassedValidation(u)
              => LET cart == checkout'[u].cart
                 IN  /\ Lines(cart.items) # {}
                     /\ \A p \in Lines(cart.items) :
                          /\ products[p].in_stock
                          /\ products[p].track_inventory
                                => cart.items[p].quantity <= products[p].stock_quantity[1]]_vars


\* The resolution order as the claim words it: the first match of header
\* (superuser, owner or member), query parameter (superuser), first owned
\* tenant, first membership tenant, else none.
ClaimedTenant(req) ==
    LET u == req.user
        owned == First({c \in Companies : owner[c] = u})
        member == First({c \in Companies : u \in users[c]})
    IN  IF req.header \in Companies
              /\ (u \in is_superuser \/ owner[req.header] = u \/ u \in users[req.header])
        THEN req.header
        ELSE IF req.query \in Companies /\ u \in is_superuser THEN req.query
        ELSE IF owned # NoCompany THEN owned
        ELSE member

\* C8: tenant resolution returns the first match of header (caller is
\* superuser, owner or member; otherwise the header is ignored), query
\* parameter (superuser), first owned tenant, first membership tenant, else
\* none; for a non-superuser the result is a tenant the caller owns or is a
\* member of.
C8_ResolutionOrder ==
    resp.op = "resolve"
        => /\ resp.company = ClaimedTenant(resp.req)
           /\ (resp.req.user \notin is_superuser /\ resp.company # NoCompany)
                 => /\ resp.company \in Companies
                    /\ \/ owner[resp.company] = resp.req.user
                       \/ resp.req.user \in users[resp.company]


\* ------------------------------------------------------------ payments
MaxClock == 1
SessionIds == {"cs1", "cs2"}
Signatures == {"valid", "invalid", "non_ascii"}

\* The `amount` member of a webhook body: a number of cents, missing, or a
\* JSON string.
Number(n) == [kind |-> "number", cents |-> n]
MissingAmount == [kind |-> "missing", cents |-> 0]
StringAmount == [kind |-> "string", cents |-> 0]

\* Time passes.
Tick ==
    /\ clock < MaxClock
    /\ clock' = clock + 1
    /\ UNCHANGED <<tenancy, db, shop, integration, gateway, resp>>

PaymentRespond(op, u, h, company, code) ==
    /\ resp' = Response(op, Req(u, h), company, code, {})
    /\ UNCHANGED <<tenancy, db, shop, payment>>

\* YocoService(company) / CourierGuyService(company): the constructor runs
\* CompanyIntegrationSettings.objects.get_or_create(company=...); creating the
\* row calls CompanyIntegrationSettings.save(), which reads the attribute
\* order_number that the model does not have (AttributeError).
ServiceRaises(company) == ~integration[company].exists

\* Every status accepted.
AlwaysPayable(status) == TRUE

\* `if order.status != 'pending'` of create_checkout, negated.
Payable(status) == status = "pending"

\* YocoViewSet.create_checkout with YocoService.create_checkout_session.
\* `valid` is whether the body passes YocoCheckoutSerializer, `answer` what the
\* provider answers: a new session id, or an HTTP error.
create_checkout(u, h, o, valid, answer) ==
    LET company == get_company_from_request(Req(u, h))
    IN  IF company = NoCompany
        THEN PaymentRespond("create_checkout", u, h, company, "COMPANY_NOT_FOUND")
        ELSE IF ~valid
        THEN PaymentRespond("create_checkout", u, h, company, "VALIDATION_ERROR")
        ELSE IF ~(orders[o].exists /\ orders[o].company = company)
        THEN PaymentRespond("create_checkout", u, h, company, "ORDER_NOT_FOUND")
        ELSE IF ~Payable(orders[o].status)
        THEN PaymentRespond("create_checkout", u, h, company, "ORDER_ALREADY_PAID")
        ELSE IF ServiceRaises(company)
        THEN PaymentRespond("create_checkout", u, h, company, "YOCO_CHECKOUT_FAILED")
        ELSE IF ~integration[company].yoco_secret_key \/ answer = "http_error"
        THEN PaymentRespond("create_checkout", u, h, company, "YOCO_CONFIG_ERROR")
        ELSE /\ answer \notin gateway.issued
             /\ orders' = [orders EXCEPT ![o].yoco_checkout_id = answer]
             /\ gateway' = [gateway EXCEPT !.issued = @ \cup {answer}]
             /\ resp' = Response("create_checkout", Req(u, h), company, "OK", {o})
             /\ UNCHANGED <<tenancy, products, carts, shop, integration, clock>>

\* YocoService.verify_webhook_signature as handle_webhook calls it: "true",
\* "false", or "raised" when the constructor or hmac.compare_digest raises
\* (compare_digest raises TypeError for a str with non-ASCII characters).
verify_webhook_signature(company, signature) ==
    IF ServiceRaises(company) THEN "raised"
    ELSE IF ~integration[company].yoco_webhook_secret THEN "false"
    ELSE IF signature = "non_ascii" THEN "raised"
    ELSE IF signature = "valid" THEN "true"
    ELSE "false"

\* The amount test left out.
AmountNeverDiffers(cents, total) == FALSE

\* `amount != float(order.total)` with amount = data.get('amount', 0) / 100:
\* both sides are the double nearest to a whole number of cents over 100.
AmountDiffers(cents, total) == cents # total

WebhookRespond(company, code) ==
    /\ resp' = Response("handle_webhook", Req(Anonymous, Absent), company, code, {})
    /\ UNCHANGED <<tenancy, db, shop, payment>>

\* YocoWebhookViewSet.handle_webhook
handle_webhook(ev, signature) ==
    LET found == {o \in OrderIds : orders[o].exists /\ orders[o].yoco_checkout_id = ev.checkoutId}
    IN  IF ev.checkoutId = Absent
        THEN WebhookRespond(NoCompany, "INVALID_WEBHOOK")
        ELSE IF found = {}
        THEN WebhookRespond(NoCompany, "ORDER_NOT_FOUND")
        ELSE IF Cardinality(found) > 1
        THEN WebhookRespond(NoCompany, "SERVER_ERROR")
        ELSE LET o == CHOOSE o \in found : TRUE
                 order == orders[o]
             IN  IF verify_webhook_signature(order.company, signature) = "false"
                 THEN WebhookRespond(order.company, "WEBHOOK_VERIFICATION_FAILED")
                 ELSE IF ev.event = "payment.succeeded"
                 THEN IF ev.amount.kind = "string"
                      THEN WebhookRespond(order.company, "SERVER_ERROR")
                      ELSE IF AmountDiffers(ev.amount.cents, order.total)
                      THEN WebhookRespond(order.company, "AMOUNT_MISMATCH")
                      ELSE /\ orders' = [orders EXCEPT ![o] =
                                 [order EXCEPT !.payment_status = "completed",
                                               !.status = "paid",
                                               !.yoco_payment_id = ev.id,
                                               !.transaction_id = ev.transactionId,
                                               !.paid_at = IF ev.createdAt # None
                                                           THEN ev.createdAt ELSE Some(clock)]]
                           /\ gateway' = [gateway EXCEPT !.last =
                                          {[body |-> ev, signature |-> signature]}]
                           /\ resp' = Response("handle_webhook", Req(Anonymous, Absent),
                                               order.company, "OK", {o})
                           /\ UNCHANGED <<tenancy, products, carts, shop, integration, clock>>
                 ELSE IF ev.event = "payment.failed"
                 THEN /\ orders' = [orders EXCEPT ![o].payment_status = "failed"]
                      /\ resp' = Response("handle_webhook", Req(Anonymous, Absent),
                                          order.company, "OK", {o})
                      /\ UNCHANGED <<tenancy, products, carts, shop, payment>>
                 ELSE WebhookRespond(order.company, "OK")


\* ------------------------------------------------------------ order life cycle
\* GenericAPIView.get_object over OrderViewSet.get_queryset, then
\* check_object_permissions with IsCompanyMember.
get_object(u, h, o) ==
    IF o \notin OrderQueryset(get_company_from_request(Req(u, h))) THEN "NOT_FOUND"
    ELSE IF ~has_object_permission(u, orders[o].company) THEN "FORBIDDEN"
    ELSE "OK"

\* `if not x: x = timezone.now()` on a nullable timestamp.
StampIfUnset(t) == IF t = None THEN Some(clock) ELSE t

OrderSaved(op, u, h, o, order) ==
    /\ orders' = [orders EXCEPT ![o] = order]
    /\ resp' = Response(op, Req(u, h), get_company_from_request(Req(u, h)), "OK", {o})
    /\ UNCHANGED <<tenancy, products, carts, shop, payment>>

\* OrderViewSet.update_status; new_status is a choice of
\* UpdateOrderStatusSerializer or "invalid".
update_status(u, h, o, new_status) ==
    LET company == get_company_from_request(Req(u, h))
        order == orders[o]
    IN  IF get_object(u, h, o) # "OK"
        THEN OrderRespond("update_status", u, h, company, get_object(u, h, o), {})
        ELSE IF new_status \notin Statuses
        THEN OrderRespond("update_status", u, h, company, "VALIDATION_ERROR", {})
        ELSE OrderSaved("update_status", u, h, o,
                [order EXCEPT !.status = new_status,
                              !.shipped_at = IF new_status = "shipped" THEN StampIfUnset(@) ELSE @,
                              !.delivered_at = IF new_status = "delivered" THEN StampIfUnset(@) ELSE @,
                              !.cancelled_at = IF new_status = "cancelled" THEN StampIfUnset(@) ELSE @])

\* OrderViewSet.update_payment; pay is the `payment` dict of the body, whose
\* members may be absent.
update_payment(u, h, o, pay, new_status) ==
    LET company == get_company_from_request(Req(u, h))
        order == orders[o]
        payment_status == IF pay.status = Absent THEN order.payment_status ELSE pay.status
    IN  IF get_object(u, h, o) # "OK"
        THEN OrderRespond("update_payment", u, h, company, get_object(u, h, o), {})
        ELSE IF new_status \notin Statuses
        THEN OrderRespond("update_payment", u, h, company, "VALIDATION_ERROR", {})
        ELSE OrderSaved("update_payment", u, h, o,
                [order EXCEPT !.payment_status = payment_status,
                              !.yoco_payment_id = IF pay.yocoPaymentId = Absent THEN @
                                                  ELSE pay.yocoPaymentId,
                              !.transaction_id = IF pay.transactionId = Absent THEN @
                                                 ELSE pay.transactionId,
                              !.paid_at = IF pay.paidAt # None THEN pay.paidAt
                                          ELSE IF payment_status = "completed" THEN StampIfUnset(@)
                                          ELSE @,
                              !.status = new_status])

\* OrderViewSet.update_tracking. The view reads the camel-case keys
\* trackingNumber, waybillNumber, collectionCode and shippedAt, which
\* UpdateTrackingSerializer (snake-case fields) never yields, so only
\* `status` reaches the order; new_status is Absent, a choice of the
\* serializer, or "invalid".
update_tracking(u, h, o, new_status) ==
    LET company == get_company_from_request(Req(u, h))
        order == orders[o]
        status == IF new_status = Absent THEN order.status ELSE new_status
    IN  IF get_object(u, h, o) # "OK"
        THEN OrderRespond("update_tracking", u, h, company, get_object(u, h, o), {})
        ELSE IF new_status \notin {Absent, "shipped", "delivered"}
        THEN OrderRespond("update_tracking", u, h, company, "VALIDATION_ERROR", {})
        ELSE OrderSaved("update_tracking", u, h, o,
                [order EXCEPT !.status = status,
                              !.shipped_at = IF status = "shipped" THEN StampIfUnset(@) ELSE @])

\* The inventory loop of cancel_order left out.
RestoreNothing(table, items, S) == table

\* The inventory loop of cancel_order.
RECURSIVE RestoreStock(_, _, _)
RestoreStock(table, items, S) ==
    IF S = {} THEN table
    ELSE LET p == CHOOSE p \in S : TRUE
             prod == table[p]
         IN  RestoreStock(
                 [table EXCEPT ![p] =
                     IF prod.track_inventory /\ prod.stock_quantity # None
                     THEN [prod EXCEPT !.stock_quantity = Some(@[1] + items[p].quantity),
                                       !.in_stock = TRUE]
                     ELSE prod],
                 items, S \ {p})

\* The model stops restoring stock above this level.
StockCap == MaxStock + MaxQty

\* Every status taken as cancellable.
AlwaysCancellable(status) == TRUE

\* `order.status not in ['pending', 'paid']` answers ORDER_CANNOT_BE_CANCELLED.
Cancellable(status) == status \in {"pending", "paid"}

\* OrderViewSet.cancel_order; `valid` is whether the body passes
\* CancelOrderSerializer (a reason is required).
cancel_order(u, h, o, valid) ==
    LET company == get_company_from_request(Req(u, h))
        order == orders[o]
    IN  IF get_object(u, h, o) # "OK"
        THEN OrderRespond("cancel_order", u, h, company, get_object(u, h, o), {})
        ELSE IF ~Cancellable(order.status)
        THEN OrderRespond("cancel_order", u, h, company, "ORDER_CANNOT_BE_CANCELLED", {})
        ELSE IF ~valid
        THEN OrderRespond("cancel_order", u, h, company, "VALIDATION_ERROR", {})
        ELSE /\ \A p \in Lines(order.items) :
                    products[p].stock_quantity # None
                        => products[p].stock_quantity[1] + order.items[p].quantity <= StockCap
             /\ orders' = [orders EXCEPT ![o] =
                    [order EXCEPT !.status = "cancelled", !.cancelled_at = Some(clock)]]
             /\ products' = RestoreStock(products, order.items, Lines(order.items))
             /\ resp' = Response("cancel_order", Req(u, h), company, "OK", {o})
             /\ UNCHANGED <<tenancy, carts, shop, payment>>

\* The body of a successful courier response that carries waybill `answer`.
CourierAnswer(answer) ==
    [waybill_number |-> answer, tracking_number |-> "tr1", collection_code |-> "cc1"]

\* Every status accepted.
AlwaysShippable(status) == TRUE

\* `if order.status != 'paid'` of create_shipment, negated.
Shippable(status) == status = "paid"

\* PudoShipmentViewSet.create_shipment with CourierGuyService.create_shipment;
\* `valid` is whether the body passes PudoShipmentSerializer, `answer` what
\* the courier answers: a waybill number, or an HTTP error.
create_shipment(u, h, o, valid, answer) ==
    LET company == get_company_from_request(Req(u, h))
        order == orders[o]
    IN  IF company = NoCompany
        THEN PaymentRespond("create_shipment", u, h, company, "COMPANY_NOT_FOUND")
        ELSE IF ~valid
        THEN PaymentRespond("create_shipment", u, h, company, "VALIDATION_ERROR")
        ELSE IF ~(order.exists /\ order.company = company)
        THEN PaymentRespond("create_shipment", u, h, company, "ORDER_NOT_FOUND")
        ELSE IF ~Shippable(order.status)
        THEN PaymentRespond("create_shipment", u, h, company, "ORDER_NOT_PAID")
        ELSE IF ServiceRaises(company)
        THEN PaymentRespond("create_shipment", u, h, company, "SHIPMENT_CREATION_FAILED")
        ELSE IF ~integration[company].courier_guy_api_key \/ answer = "http_error"
        THEN PaymentRespond("create_shipment", u, h, company, "COURIER_CONFIG_ERROR")
        ELSE OrderSaved("create_shipment", u, h, o,
                [order EXCEPT !.waybill_number = CourierAnswer(answer).waybill_number,
                              !.tracking_number = CourierAnswer(answer).tracking_number,
                              !.collection_code = CourierAnswer(answer).collection_code,
                              !.status = "shipped",
                              !.shipped_at = Some(clock)])


\* ------------------------------------------------------------ payment spec
\* The database after alice's create_from_cart in c1 for q units of p1
\* succeeded, computed by the operators of the atomic block.
AfterCheckout(q) ==
    LET cart == calculate_totals([NewCart("c1", "alice") EXCEPT
                    !.items["p1"] = [quantity |-> q, price |-> Catalog(MaxStock)["p1"].price]])
        pre == [products |-> Catalog(MaxStock),
                carts |-> [k \in CartIds |-> IF k = "k1" THEN cart ELSE NoCart],
                orders |-> [o \in OrderIds |->
                              IF o = "o1" THEN NewOrder("c1", "alice", cart) ELSE NoOrder]]
    IN  ClearCart(OrderLines(pre, "o1", "k1", {"p1"}), "k1", cart)

\* The settings rows a company may have: none, a blank one, one with the
\* Yoco secret key only, and a fully configured one.
Configurations ==
    {NoSettings, BlankSettings,
     [BlankSettings EXCEPT !.yoco_secret_key = TRUE],
     [BlankSettings EXCEPT !.yoco_secret_key = TRUE, !.yoco_webhook_secret = TRUE,
                           !.courier_guy_api_key = TRUE]}

InitPayment ==
    /\ InitTenancy
    /\ \E q \in 1..MaxQty :
          /\ products = AfterCheckout(q).products
          /\ carts = AfterCheckout(q).carts
          /\ orders = AfterCheckout(q).orders
          /\ ledger = [p \in Products |->
                         IF p = "p1" THEN [initial |-> MaxStock, sold |-> q]
                         ELSE [initial |-> 0, sold |-> 0]]
    /\ checkout = [u \in Users |-> Idle]
    /\ created = 1
    /\ integration \in [Companies -> Configurations]
    /\ integration["c2"] = NoSettings
    /\ clock = 0
    /\ gateway = NoGateway
    /\ resp = NoResp

\* The totals an order of the payment specification can have.
Totals == {AfterCheckout(q).orders["o1"].total : q \in 1..MaxQty}

\* Webhook bodies: payment.succeeded with every checkout id, amount and
\* createdAt, and the other events with every checkout id.
Events ==
    [event : {"payment.succeeded"},
     checkoutId : SessionIds \cup {Absent},
     id : {"pay1"},
     transactionId : {"tx1"},
     amount : {Number(t) : t \in Totals} \cup {MissingAmount, StringAmount},
     createdAt : {None, Some(0)}]
    \cup
    [event : {"payment.failed", "other"},
     checkoutId : SessionIds \cup {Absent},
     id : {"pay1"},
     transactionId : {"tx1"},
     amount : {MissingAmount},
     createdAt : {None}]

\* The callers of the payment specifications: the owner of c1 without a
\* header, and a member of c1 who names it in the header.
Staff == {Req("alice", Absent), Req("bob", "c1")}

NextWebhook ==
    \/ Tick
    \/ \E r \in Staff, valid \in BOOLEAN, answer \in SessionIds \cup {"http_error"} :
          create_checkout(r.user, r.header, "o1", valid, answer)
    \/ \E ev \in Events, signature \in Signatures : handle_webhook(ev, signature)
    \/ \E r \in Staff, valid \in BOOLEAN, answer \in {"wb1", "http_error"} :
          create_shipment(r.user, r.header, "o1", valid, answer)

SpecWebhook == InitPayment /\ [][NextWebhook]_vars

\* The orders a webhook body names by its checkout id.
WebhookOrders(ev) ==
    {o \in OrderIds : orders[o].exists /\ orders[o].yoco_checkout_id = ev.checkoutId}

\* A payment.succeeded body whose amount (0 when the member is missing, and
\* never equal when it is not a number) is not the total of the order it names.
Mismatching(ev) ==
    /\ ev.event = "payment.succeeded"
    /\ ev.checkoutId # Absent
    /\ \E o \in WebhookOrders(ev) :
          ev.amount.kind = "string" \/ ev.amount.cents # orders[o].total

\* The signature check of this call answered "false".
Rejected(ev, signature) ==
    \E o \in WebhookOrders(ev) : verify_webhook_signature(orders[o].company, signature) = "false"

\* C4: a payment.succeeded webhook whose amount differs from the total of the
\* order it names leaves every order unchanged; it is answered
\* WEBHOOK_VERIFICATION_FAILED when the signature check rejects it first,
\* fails with a server error when the amount is not a number, and is
\* answered AMOUNT_MISMATCH otherwise.
C4_MismatchKeepsOrder ==
    [][\A ev \in Events, signature \in Signatures :
          (Mismatching(ev) /\ handle_webhook(ev, signature))
              => /\ orders' = orders
                 /\ resp'.code = IF Rejected(ev, signature)
                                 THEN "WEBHOOK_VERIFICATION_FAILED"
                                 ELSE IF ev.amount.kind = "string"
                                 THEN "SERVER_ERROR"
                                 ELSE "AMOUNT_MISMATCH"]_vars

\* C4 witness: a webhook was answered AMOUNT_MISMATCH for an order that has a
\* checkout session and is still pending and unpaid.
C4_Witness ==
    /\ resp.op = "handle_webhook"
    /\ resp.code = "AMOUNT_MISMATCH"
    /\ \E o \in OrderIds : /\ orders[o].exists
                           /\ orders[o].company = resp.company
                           /\ orders[o].yoco_checkout_id \in SessionIds
                           /\ orders[o].status = "pending"
                           /\ orders[o].paid_at = None

\* C4 as worded: every payment.succeeded webhook whose amount differs from
\* the order total is answered AMOUNT_MISMATCH and leaves the order unchanged.
C4_AlwaysAmountMismatch ==
    [][\A ev \in Events, signature \in Signatures :
          (Mismatching(ev) /\ handle_webhook(ev, signature))
              => /\ orders' = orders
                 /\ resp'.code = "AMOUNT_MISMATCH"]_vars

\* C5: a call of the webhook handler changes an order only if the signature
\* check of that call returned true.
C5_VerifiedOrUnchanged ==
    [][\A ev \in Events, signature \in Signatures :
          (orders' # orders /\ handle_webhook(ev, signature))
              => \E o \in WebhookOrders(ev) :
                    verify_webhook_signature(orders[o].company, signature) = "true"]_vars

\* C6: delivering again, at any later point, the payment.succeeded event that
\* the handler processed last leaves every order as it was just before the
\* replay.
C6_ReplayChangesNothing ==
    [][\A d \in gateway.last :
          handle_webhook(d.body, d.signature) => orders' = orders]_vars


\* ------------------------------------------------------------ life-cycle spec
FullSettings ==
    [BlankSettings EXCEPT !.yoco_secret_key = TRUE, !.yoco_webhook_secret = TRUE,
                          !.courier_guy_api_key = TRUE]

\* The state after create_from_cart and a successful create_checkout that
\* the provider answered with session cs1.
InitLifecycle ==
    /\ InitTenancy
    /\ \E q \in 1..MaxQty :
          /\ products = AfterCheckout(q).products
          /\ carts = AfterCheckout(q).carts
          /\ orders = [AfterCheckout(q).orders EXCEPT !["o1"].yoco_checkout_id = "cs1"]
          /\ ledger = [p \in Products |->
                         IF p = "p1" THEN [initial |-> MaxStock, sold |-> q]
                         ELSE [initial |-> 0, sold |-> 0]]
    /\ checkout = [u \in Users |-> Idle]
    /\ created = 1
    /\ integration = [c \in Companies |-> IF c = "c1" THEN FullSettings ELSE NoSettings]
    /\ clock = 0
    /\ gateway = [NoGateway EXCEPT !.issued = {"cs1"}]
    /\ resp = NoResp

\* Webhook bodies for session cs1 as the provider sends them.
ProviderEvents == {ev \in Events : ev.checkoutId = "cs1" /\ ev.amount.kind # "string"
                                   /\ ev.createdAt = None /\ ev.event # "other"}

NoPayment == [status |-> Absent, yocoPaymentId |-> Absent, transactionId |-> Absent,
              paidAt |-> None]

NextLifecycle ==
    \/ \E r \in Staff, s \in Statuses \cup {"invalid"} :
          update_status(r.user, r.header, "o1", s)
    \/ \E r \in Staff, pay \in {NoPayment, [NoPayment EXCEPT !.status = "completed"]},
          s \in Statuses \cup {"invalid"} : update_payment(r.user, r.header, "o1", pay, s)
    \/ \E r \in Staff, s \in {Absent, "shipped", "delivered", "invalid"} :
          update_tracking(r.user, r.header, "o1", s)
    \/ \E r \in Staff, valid \in BOOLEAN : cancel_order(r.user, r.header, "o1", valid)
    \/ \E r \in Staff, valid \in BOOLEAN, answer \in {"wb1", "http_error"} :
          create_shipment(r.user, r.header, "o1", valid, answer)
    \/ \E ev \in ProviderEvents, signature \in {"valid", "invalid"} :
          handle_webhook(ev, signature)

SpecLifecycle == InitLifecycle /\ [][NextLifecycle]_vars

\* The order of the states on the main line of the life cycle.
Rank(s) == CASE s = "pending" -> 1 [] s = "paid" -> 2 [] s = "processing" -> 3
             [] s = "shipped" -> 4 [] s = "delivered" -> 5 [] OTHER -> 0

\* A status change the life cycle allows.
Allowed(from, to) ==
    \/ Rank(from) > 0 /\ Rank(to) > Rank(from)
    \/ to = "cancelled" /\ from \in {"pending", "paid"}
    \/ to = "refunded" /\ from # "refunded"

\* C10: every change of an order's status is a forward step along
\* pending -> paid -> processing -> shipped -> delivered, a move to cancelled
\* from pending or paid, or a move to refunded; no order leaves refunded.
C10_StatusMovesForward ==
    [][\A o \in OrderIds :
          (orders[o].exists /\ orders'[o].exists /\ orders'[o].status # orders[o].status)
              => Allowed(orders[o].status, orders'[o].status)]_vars


\* ------------------------------------------------------------ list and generic endpoints
\* filter_by_company over EcommerceProduct.objects.all()
filter_by_company(company) ==
    IF company = NoCompany THEN Products
    ELSE {p \in Products : products[p].company = company}

ListRespond(op, u, h, rows) ==
    /\ resp' = Response(op, Req(u, h), get_company_from_request(Req(u, h)), "OK", rows)
    /\ UNCHANGED <<tenancy, db, shop, payment>>

\* GET /products/ (EcommerceProductViewSet.list over get_queryset)
list_products(u, h) ==
    ListRespond("list_products", u, h, filter_by_company(get_company_from_request(Req(u, h))))

\* GET /carts/ (ModelViewSet.list over CartViewSet.get_queryset)
list_carts(u, h) ==
    ListRespond("list_carts", u, h, CartQueryset(u, get_company_from_request(Req(u, h))))

\* GET /orders/ (OrderViewSet.list over get_queryset)
list_orders(u, h) ==
    ListRespond("list_orders", u, h, OrderQueryset(get_company_from_request(Req(u, h))))

\* POST /carts/ (ModelViewSet.create with CartSerializer, whose `company` and
\* `user` fields are writable): the row is saved as the body names it.
cart_create(u, h, c, v) ==
    LET k == FreeSlot(carts, CartIds)
    IN  /\ k # "none"
        /\ carts' = [carts EXCEPT ![k] = NewCart(c, v)]
        /\ resp' = Response("cart_create", Req(u, h), get_company_from_request(Req(u, h)),
                            "CREATED", {k})
        /\ UNCHANGED <<tenancy, products, orders, shop, payment>>

\* ------------------------------------------------------------ tenancy spec
\* An order of c1 exists and no integration is configured.
InitIsolation ==
    /\ InitTenancy
    /\ \E q \in 1..MaxQty :
          /\ products = AfterCheckout(q).products
          /\ carts = AfterCheckout(q).carts
          /\ orders = AfterCheckout(q).orders
          /\ ledger = [p \in Products |->
                         IF p = "p1" THEN [initial |-> MaxStock, sold |-> q]
                         ELSE [initial |-> 0, sold |-> 0]]
    /\ checkout = [u \in Users |-> Idle]
    /\ created = 1
    /\ InitPaymentIdle
    /\ resp = NoResp

\* The callers of the tenancy specification: an owner with and without the
\* header of a company she is a member of, another owner, a user of no
\* company with and without a header, and a superuser likewise.
Callers == {Req("alice", Absent), Req("alice", "c2"), Req("bob", Absent),
            Req("carol", Absent), Req("carol", "c1"),
            Req("root", Absent), Req("root", "c1")}

NextIsolation ==
    \/ \E r \in Callers : list_products(r.user, r.header)
    \/ \E r \in Callers : list_carts(r.user, r.header)
    \/ \E r \in Callers : list_orders(r.user, r.header)
    \/ \E r \in Callers, c \in Companies : cart_create(r.user, r.header, c, r.user)
    \/ \E r \in Callers, p \in Tracked, q \in 1..MaxQty : add_item(r.user, r.header, p, q)
    \/ \E r \in Callers, k \in CartIds, c \in Companies :
          cart_partial_update(r.user, r.header, k, c)
    \/ \E r \in Callers, o \in OrderIds : destroy_order(r.user, r.header, o)

SpecIsolation == InitIsolation /\ [][NextIsolation]_vars


ListOps == {"list_products", "list_carts", "list_orders"}

\* The response r answers a non-superuser for whom tenant T resolved.
HandledFor(r, T) ==
    /\ r.req.user \in Users \ is_superuser
    /\ r.company = T

\* Every cart line and every order item is of a product of the cart's or
\* order's own tenant.
LinesWithinTenant(d) ==
    /\ \A k \in CartIds : d.carts[k].exists =>
          \A p \in Lines(d.carts[k].items) : d.products[p].company = d.carts[k].company
    /\ \A o \in OrderIds : d.orders[o].exists =>
          \A p \in Lines(d.orders[o].items) : d.products[p].company = d.orders[o].company

\* C7: a request handled for a non-superuser with resolved tenant T returns
\* and modifies only products, carts and orders (with their lines) of T, and
\* every cart line's and order item's product is of the tenant of its cart or
\* order.
C7_TenantIsolation ==
    [][/\ \A T \in Companies :
            HandledFor(resp', T) =>
                /\ resp'.op = "list_products" =>
                      \A p \in resp'.out : products[p].company = T
                /\ resp'.op = "list_carts" =>
                      \A k \in resp'.out : carts[k].company = T
                /\ resp'.op = "list_orders" =>
                      \A o \in resp'.out : orders[o].company = T
                /\ \A p \in Products : products'[p] # products[p] =>
                      products[p].company = T /\ products'[p].company = T
                /\ \A k \in CartIds : carts'[k] # carts[k] =>
                      /\ carts[k].exists => carts[k].company = T
                      /\ carts'[k].exists => carts'[k].company = T
                /\ \A o \in OrderIds : orders'[o] # orders[o] =>
                      /\ orders[o].exists => orders[o].company = T
                      /\ orders'[o].exists => orders'[o].company = T
       /\ LinesWithinTenant([products |-> products', carts |-> carts', orders |-> orders'])
      ]_vars

\* C9: for a non-superuser for whom no tenant resolves, every list endpoint
\* returns no row, and every write endpoint fails with the tenant-required
\* error and changes nothing.
C9_NoTenantNoAccess ==
    [][HandledFor(resp', NoCompany) =>
          /\ resp'.op \in ListOps => resp'.out = {}
          /\ resp'.op \notin ListOps =>
                /\ resp'.code = "COMPANY_NOT_FOUND"
                /\ products' = products /\ carts' = carts /\ orders' = orders]_vars

\* ------------------------------------------------------------ becoming paid
\* C11: an order's status changes from pending to paid only in a step of the
\* webhook handler or of update_payment, and an order that becomes paid has
\* paid_at set, to the value it had before when it was already set.
C11_PaidOnlyByPayment ==
    [][\A o \in OrderIds :
          (orders[o].exists /\ orders'[o].exists
              /\ orders[o].status = "pending" /\ orders'[o].status = "paid")
          => /\ resp'.op \in {"handle_webhook", "update_payment"}
             /\ orders'[o].paid_at # None
             /\ orders[o].paid_at # None => orders'[o].paid_at = orders[o].paid_at]_vars

\* ------------------------------------------------------------ cancelling
\* C12: a cancel_order call that reaches the order answers
\* ORDER_CANNOT_BE_CANCELLED and changes no order and no product when the
\* status is neither pending nor paid; without a reason it is rejected and
\* changes nothing; on a pending or paid order with a reason it sets the
\* status to cancelled and cancelled_at to the current time.
C12_CancelGuards ==
    [][\A r \in Staff, valid \in BOOLEAN, o \in OrderIds :
          (/\ resp'.op = "cancel_order"
           /\ get_object(r.user, r.header, o) = "OK"
           /\ cancel_order(r.user, r.header, o, valid))
          => /\ orders[o].status \notin {"pending", "paid"}
                  => /\ resp'.code = "ORDER_CANNOT_BE_CANCELLED"
                     /\ orders' = orders /\ products' = products
             /\ ~valid
                  => /\ resp'.code \in {"VALIDATION_ERROR", "ORDER_CANNOT_BE_CANCELLED"}
                     /\ orders' = orders /\ products' = products
             /\ (valid /\ orders[o].status \in {"pending", "paid"})
                  => /\ resp'.code = "OK"
                     /\ orders'[o].status = "cancelled"
                     /\ orders'[o].cancelled_at = Some(clock)
                     /\ \A x \in OrderIds \ {o} : orders'[x] = orders[x]]_vars

\* C12 witness: a pending or paid order was cancelled.
C12_Witness ==
    /\ resp.op = "cancel_order"
    /\ resp.code = "OK"
    /\ \E o \in resp.out : orders[o].status = "cancelled" /\ orders[o].cancelled_at # None

\* C12 witness of the refusal: cancel_order answered
\* ORDER_CANNOT_BE_CANCELLED for an order that is shipped or delivered.
C12_RefusedWitness ==
    /\ resp.op = "cancel_order"
    /\ resp.code = "ORDER_CANNOT_BE_CANCELLED"
    /\ orders["o1"].status \in {"shipped", "delivered"}

\* ------------------------------------------------------------ cancel specification
\* The products of an order about to be cancelled: p1 with any inventory
\* settings an owner can store through the product endpoints, p2 not
\* tracked and marked unavailable.
CancelCatalog(track, stock, flag, other) ==
    [p \in Products |->
        IF p = "p1"
        THEN [company |-> "c1", track_inventory |-> track, stock_quantity |-> stock,
              in_stock |-> flag, price |-> 5000]
        ELSE [company |-> "c1", track_inventory |-> FALSE, stock_quantity |-> other,
              in_stock |-> FALSE, price |-> 10000]]

\* An order of c1 with q1 units of p1 and q2 units of p2, as create_from_cart
\* stores it.
OrderOf(q1, q2, status) ==
    LET items == [p \in Products |->
                    IF p = "p1" THEN [quantity |-> q1, price |-> IF q1 > 0 THEN 5000 ELSE 0]
                    ELSE [quantity |-> q2, price |-> IF q2 > 0 THEN 10000 ELSE 0]]
        cart == calculate_totals([NewCart("c1", "alice") EXCEPT !.items = items])
    IN  [NewOrder("c1", "alice", cart) EXCEPT !.items = items, !.status = status]

InitCancel ==
    /\ InitTenancy
    /\ \E track \in BOOLEAN, flag \in BOOLEAN,
          stock \in {None} \cup {Some(n) : n \in 0..MaxStock},
          other \in {None, Some(1)} :
          products = CancelCatalog(track, stock, flag, other)
    /\ \E q1 \in 0..MaxQty, q2 \in 0..MaxQty, status \in {"pending", "paid", "shipped"} :
          /\ q1 + q2 > 0
          /\ orders = [o \in OrderIds |-> IF o = "o1" THEN OrderOf(q1, q2, status) ELSE NoOrder]
    /\ carts = [k \in CartIds |-> NoCart]
    /\ ledger = [p \in Products |-> [initial |-> 0, sold |-> 0]]
    /\ checkout = [u \in Users |-> Idle]
    /\ created = 1
    /\ InitPaymentIdle
    /\ resp = NoResp

NextCancel ==
    \/ \E r \in Staff, valid \in BOOLEAN : cancel_order(r.user, r.header, "o1", valid)
    \/ \E r \in Staff, s \in {"pending", "shipped"} : update_status(r.user, r.header, "o1", s)

SpecCancel == InitCancel /\ [][NextCancel]_vars

\* C13: a successful cancel_order adds, for every order item whose product
\* tracks inventory and has a stock quantity, the item's quantity to that
\* product's stock_quantity and sets its in_stock flag; every other product
\* is unchanged.
C13_CancelRestoresStock ==
    [][(resp'.op = "cancel_order" /\ resp'.code = "OK")
          => \A o \in resp'.out, p \in Products :
                IF /\ p \in Lines(orders[o].items)
                   /\ products[p].track_inventory
                   /\ products[p].stock_quantity # None
                THEN /\ products'[p].stock_quantity =
                            Some(products[p].stock_quantity[1] + orders[o].items[p].quantity)
                     /\ products'[p].in_stock
                     /\ products'[p].track_inventory
                     /\ products'[p].price = products[p].price
                ELSE products'[p] = products[p]]_vars

\* C13 witness: an order with a line of a tracked product that has a stock
\* quantity, and a line of an untracked product, was cancelled.
C13_Witness ==
    /\ resp.op = "cancel_order"
    /\ resp.code = "OK"
    /\ \E o \in resp.out :
          /\ orders[o].status = "cancelled"
          /\ \E p \in Lines(orders[o].items) :
                /\ products[p].track_inventory
                /\ products[p].stock_quantity # None
                /\ products[p].stock_quantity[1] >= orders[o].items[p].quantity
          /\ \E p \in Lines(orders[o].items) : ~products[p].track_inventory

\* C13 as worded: a successful cancel_order makes every order item's product
\* that tracks inventory available, and adds the item's quantity to its stock.
C13_EveryTrackedRestored ==
    [][(resp'.op = "cancel_order" /\ resp'.code = "OK")
          => \A o \in resp'.out : \A p \in Lines(orders[o].items) :
                products[p].track_inventory
                => /\ products'[p].in_stock
                   /\ products[p].stock_quantity # None
                        => products'[p].stock_quantity =
                              Some(products[p].stock_quantity[1] + orders[o].items[p].quantity)]_vars

\* ------------------------------------------------------------ frozen totals
\* PATCH /orders/{id}/ (ModelViewSet.partial_update with OrderSerializer):
\* `discount` is a writable field (MinValueValidator(0)); subtotal, shipping,
\* tax and total are read-only fields, which the serializer drops from the
\* body. body.discount and body.total are None (absent) or Some number of
\* cents.
order_partial_update(u, h, o, body) ==
    LET company == get_company_from_request(Req(u, h))
        order == orders[o]
    IN  IF get_object(u, h, o) # "OK"
        THEN OrderRespond("order_partial_update", u, h, company, get_object(u, h, o), {})
        ELSE IF body.discount # None /\ body.discount[1] < 0
        THEN OrderRespond("order_partial_update", u, h, company, "VALIDATION_ERROR", {})
        ELSE OrderSaved("order_partial_update", u, h, o,
                [order EXCEPT !.discount = IF body.discount = None THEN @ ELSE body.discount[1]])

\* Bodies of the generic order update.
OrderBodies == [discount : {None, Some(-100), Some(1000)}, total : {None, Some(100)}]

\* Every operation on an existing order, with the inputs that pass its
\* validation and some that do not.
NextTotals ==
    \/ \E r \in Staff, s \in {"pending", "paid", "invalid"} :
          update_status(r.user, r.header, "o1", s)
    \/ \E r \in Staff : update_payment(r.user, r.header, "o1",
                                       [NoPayment EXCEPT !.status = "completed"], "paid")
    \/ \E r \in Staff, s \in {Absent, "shipped"} : update_tracking(r.user, r.header, "o1", s)
    \/ \E r \in Staff : cancel_order(r.user, r.header, "o1", TRUE)
    \/ \E r \in Staff, answer \in {"cs2", "http_error"} :
          create_checkout(r.user, r.header, "o1", TRUE, answer)
    \/ \E r \in Staff, answer \in {"wb1", "http_error"} :
          create_shipment(r.user, r.header, "o1", TRUE, answer)
    \/ \E ev \in ProviderEvents : handle_webhook(ev, "valid")
    \/ \E r \in Staff, body \in OrderBodies : order_partial_update(r.user, r.header, "o1", body)

SpecTotals == InitLifecycle /\ [][NextTotals]_vars

\* The money columns of an order.
Money(order) == <<order.subtotal, order.shipping, order.tax, order.discount, order.total>>

\* C14: no step changes the subtotal, shipping, tax, discount or total of an
\* order that exists before and after it.
C14_TotalsFrozen ==
    [][\A o \in OrderIds :
          (orders[o].exists /\ orders'[o].exists) => Money(orders'[o]) = Money(orders[o])]_vars

\* ------------------------------------------------------------ cart to order
\* C15: a create_from_cart call that succeeds creates exactly one order, with
\* the subtotal, shipping, tax, discount and total of the cart the call read,
\* status pending and payment status pending, with one item per line of
\* that cart carrying the line's price and quantity, and leaves the cart
\* without lines.
C15_OrderCopiesCart ==
    [][\A u \in Users :
          (RanAtomicBlock(u) /\ resp'.code = "CREATED")
          => LET ck == checkout[u]
             IN  /\ \E o \in OrderIds :
                       /\ ~orders[o].exists /\ orders'[o].exists
                       /\ \A x \in OrderIds \ {o} : orders'[x] = orders[x]
                       /\ Money(orders'[o]) = Money(ck.cart)
                       /\ orders'[o].status = "pending"
                       /\ orders'[o].payment_status = "pending"
                       /\ orders'[o].items = ck.cart.items
                 /\ Lines(carts'[ck.id].items) = {}]_vars

\* ------------------------------------------------------------ cart operations
\* Cart.objects.get(company=company, user=user) as the cart endpoints call
\* it: the cart's id, CART_NOT_FOUND, or SERVER_ERROR when several rows match
\* (MultipleObjectsReturned is not caught).
CartFor(company, u) ==
    LET mine == CartsOf(company, u)
    IN  IF mine = {} THEN "CART_NOT_FOUND"
        ELSE IF Cardinality(mine) > 1 THEN "SERVER_ERROR"
        ELSE CHOOSE k \in mine : TRUE

\* cart.calculate_totals(); cart.save() and the response of a cart endpoint.
CartSaved(op, u, h, k, cart) ==
    /\ carts' = [carts EXCEPT ![k] = calculate_totals(cart)]
    /\ resp' = Response(op, Req(u, h), get_company_from_request(Req(u, h)), "OK", {k})
    /\ UNCHANGED <<tenancy, products, orders, shop, payment>>

\* CartViewSet.get_my_cart: Cart.objects.get_or_create(company=company, ...)
\* looks the cart up by company alone.
get_my_cart(u, h) ==
    LET company == get_company_from_request(Req(u, h))
        found == {k \in CartIds : carts[k].exists /\ carts[k].company = company}
    IN  IF company = NoCompany
        THEN CartRespond("get_my_cart", u, h, company, "COMPANY_NOT_FOUND", {})
        ELSE IF Cardinality(found) > 1
        THEN CartRespond("get_my_cart", u, h, company, "SERVER_ERROR", {})
        ELSE IF found = {}
        THEN /\ FreeSlot(carts, CartIds) # "none"
             /\ CartSaved("get_my_cart", u, h, FreeSlot(carts, CartIds), NewCart(company, u))
        ELSE LET k == CHOOSE k \in found : TRUE
             IN  CartSaved("get_my_cart", u, h, k,
                           IF carts[k].user = Anonymous
                           THEN [carts[k] EXCEPT !.user = u] ELSE carts[k])

\* CartViewSet.update_item; quantity 0 stands for a body that fails
\* UpdateCartItemSerializer (min_value=1).
update_item(u, h, p, quantity) ==
    LET company == get_company_from_request(Req(u, h))
        k == CartFor(company, u)
    IN  IF company = NoCompany
        THEN CartRespond("update_item", u, h, company, "COMPANY_NOT_FOUND", {})
        ELSE IF quantity < 1
        THEN CartRespond("update_item", u, h, company, "VALIDATION_ERROR", {})
        ELSE IF k \notin CartIds
        THEN CartRespond("update_item", u, h, company, k, {})
        ELSE IF carts[k].items[p].quantity = 0
        THEN CartRespond("update_item", u, h, company, "CART_ITEM_NOT_FOUND", {})
        ELSE IF /\ products[p].track_inventory /\ Truthy(products[p].stock_quantity)
                /\ quantity > products[p].stock_quantity[1]
        THEN CartRespond("update_item", u, h, company, "INSUFFICIENT_STOCK", {})
        ELSE CartSaved("update_item", u, h, k, [carts[k] EXCEPT !.items[p].quantity = quantity])

\* CartViewSet.remove_item
remove_item(u, h, p) ==
    LET company == get_company_from_request(Req(u, h))
        k == CartFor(company, u)
    IN  IF company = NoCompany
        THEN CartRespond("remove_item", u, h, company, "COMPANY_NOT_FOUND", {})
        ELSE IF k \notin CartIds
        THEN CartRespond("remove_item", u, h, company, k, {})
        ELSE CartSaved("remove_item", u, h, k, [carts[k] EXCEPT !.items[p] = NoLine])

\* CartViewSet.clear_cart
clear_cart(u, h) ==
    LET company == get_company_from_request(Req(u, h))
        k == CartFor(company, u)
    IN  IF company = NoCompany
        THEN CartRespond("clear_cart", u, h, company, "COMPANY_NOT_FOUND", {})
        ELSE IF k \notin CartIds
        THEN CartRespond("clear_cart", u, h, company, k, {})
        ELSE CartSaved("clear_cart", u, h, k, [carts[k] EXCEPT !.items = NoLines])

\* The choices of UpdateShippingSerializer.delivery_method.
DeliveryMethods == {"standard", "express", "same-day", "pudo"}

\* CartViewSet.update_shipping; method is Absent, a choice of the serializer,
\* or "invalid".
update_shipping(u, h, method) ==
    LET company == get_company_from_request(Req(u, h))
        k == CartFor(company, u)
    IN  IF company = NoCompany
        THEN CartRespond("update_shipping", u, h, company, "COMPANY_NOT_FOUND", {})
        ELSE IF method \notin DeliveryMethods \cup {Absent}
        THEN CartRespond("update_shipping", u, h, company, "VALIDATION_ERROR", {})
        ELSE IF k \notin CartIds
        THEN CartRespond("update_shipping", u, h, company, k, {})
        ELSE CartSaved("update_shipping", u, h, k,
                       IF method = Absent THEN carts[k]
                       ELSE [carts[k] EXCEPT !.delivery_method = method])

\* CartViewSet.apply_discount: `cart.discount = 10.00` stores a float, and
\* calculate_totals then evaluates `self.subtotal - self.discount`, a Decimal
\* (or the int 0 of an empty sum) minus a float, times Decimal('0.15'):
\* TypeError before cart.save(), so nothing is written.
apply_discount(u, h, valid) ==
    LET company == get_company_from_request(Req(u, h))
        k == CartFor(company, u)
    IN  IF company = NoCompany
        THEN CartRespond("apply_discount", u, h, company, "COMPANY_NOT_FOUND", {})
        ELSE IF ~valid
        THEN CartRespond("apply_discount", u, h, company, "VALIDATION_ERROR", {})
        ELSE IF k \notin CartIds
        THEN CartRespond("apply_discount", u, h, company, k, {})
        ELSE CartRespond("apply_discount", u, h, company, "SERVER_ERROR", {})

\* PATCH /carts/{id}/ with a `discount` (ModelViewSet.partial_update with
\* CartSerializer, where discount is writable and validated >= 0): the
\* stored totals are not recomputed.
cart_discount_update(u, h, k, discount) ==
    LET company == get_company_from_request(Req(u, h))
    IN  IF k \notin CartQueryset(u, company)
        THEN CartRespond("cart_discount_update", u, h, company, "NOT_FOUND", {})
        ELSE IF ~has_object_permission(u, carts[k].company)
        THEN CartRespond("cart_discount_update", u, h, company, "FORBIDDEN", {})
        ELSE IF discount < 0
        THEN CartRespond("cart_discount_update", u, h, company, "VALIDATION_ERROR", {})
        ELSE /\ carts' = [carts EXCEPT ![k].discount = discount]
             /\ resp' = Response("cart_discount_update", Req(u, h), company, "OK", {k})
             /\ UNCHANGED <<tenancy, products, orders, shop, payment>>

\* PATCH /products/{id}/ with a `price` (EcommerceProductViewSet.update over
\* ModelViewSet.update with EcommerceProductSerializer): Http404,
\* PermissionDenied and ValidationError raised inside are all caught by the
\* override and answered VALIDATION_ERROR; cart lines and order items are
\* not touched.
product_partial_update(u, h, p, price) ==
    LET company == get_company_from_request(Req(u, h))
    IN  IF \/ p \notin filter_by_company(company)
           \/ ~has_object_permission(u, products[p].company)
           \/ price < 0
        THEN /\ resp' = Response("product_partial_update", Req(u, h), company, "VALIDATION_ERROR", {})
             /\ UNCHANGED <<tenancy, db, shop, payment>>
        ELSE /\ products' = [products EXCEPT ![p].price = price]
             /\ resp' = Response("product_partial_update", Req(u, h), company, "OK", {p})
             /\ UNCHANGED <<tenancy, carts, orders, shop, payment>>

\* A new price for a product.
NewPrices == {-1, 7}

\* ------------------------------------------------------------ cart specification
\* Two products of c1: p1 at 0.05 (15% of it is not a whole number of cents)
\* with tracked stock, p2 at 100.00 (two of them reach the free-shipping
\* threshold) without.
CartCatalog ==
    [p \in Products |->
        IF p = "p1"
        THEN [company |-> "c1", track_inventory |-> TRUE, stock_quantity |-> Some(MaxStock),
              in_stock |-> TRUE, price |-> 5]
        ELSE [company |-> "c1", track_inventory |-> FALSE, stock_quantity |-> None,
              in_stock |-> TRUE, price |-> 10000]]

InitCart ==
    /\ InitTenancy
    /\ products = CartCatalog
    /\ ledger = [p \in Products |-> [initial |-> 0, sold |-> 0]]
    /\ carts = [k \in CartIds |-> NoCart]
    /\ orders = [o \in OrderIds |-> NoOrder]
    /\ checkout = [u \in Users |-> Idle]
    /\ created = 0
    /\ InitPaymentIdle
    /\ resp = NoResp

NextCart ==
    \/ \E r \in Staff : get_my_cart(r.user, r.header)
    \/ \E r \in Staff, p \in Products, q \in 1..MaxQty : add_item(r.user, r.header, p, q)
    \/ \E r \in Staff, p \in Products, q \in 0..MaxQty : update_item(r.user, r.header, p, q)
    \/ \E r \in Staff, p \in Products : remove_item(r.user, r.header, p)
    \/ \E r \in Staff : clear_cart(r.user, r.header)
    \/ \E r \in Staff, m \in DeliveryMethods \cup {Absent, "invalid"} :
          update_shipping(r.user, r.header, m)
    \/ \E r \in Staff, valid \in BOOLEAN : apply_discount(r.user, r.header, valid)
    \/ \E r \in Staff, k \in CartIds, d \in {-1, 0, 3} :
          cart_discount_update(r.user, r.header, k, d)
    \/ \E r \in Staff, p \in Products, price \in NewPrices :
          product_partial_update(r.user, r.header, p, price)

SpecCart == InitCart /\ [][NextCart]_vars

\* The cart endpoints that recompute the totals.
CartOps == {"get_my_cart", "add_item", "update_item", "remove_item", "clear_cart",
            "update_shipping", "apply_discount"}

\* The totals rule applied to the stored columns of a cart, tax as `tax`.
TotalsRule(cart, tax) ==
    LET subtotal == SumOver([p \in Products |-> cart.items[p].price * cart.items[p].quantity],
                            Lines(cart.items))
    IN  /\ cart.subtotal = subtotal
        /\ cart.shipping = IF subtotal >= FREE_SHIPPING_THRESHOLD
                              /\ cart.delivery_method = "standard" THEN 0
                           ELSE IF cart.delivery_method = "express" THEN ExpressRate
                           ELSE IF cart.delivery_method = "same-day" THEN SameDayRate
                           ELSE IF cart.delivery_method = "pudo" THEN PudoRate
                           ELSE StandardRate
        /\ cart.tax = tax
        /\ cart.total = cart.subtotal + cart.shipping + cart.tax - cart.discount

C16_ClearingRecomputes ==
    [][\A u \in Users :
          (RanAtomicBlock(u) /\ resp'.code = "CREATED")
          => LET cart == carts'[checkout[u].id]
             IN  TotalsRule(cart, RoundHalfEven((cart.subtotal - cart.discount) * VatPercent, 100))]_vars


\* The lines of a cart as a set of <<product, unit price, quantity>>.
LinesOf(cart) ==
    {<<p, cart.items[p].price, cart.items[p].quantity>> : p \in Lines(cart.items)}

RECURSIVE SumLines(_)
SumLines(L) == IF L = {} THEN 0
               ELSE LET l == CHOOSE l \in L : TRUE
                    IN  l[2] * l[3] + SumLines(L \ {l})

\* The four totals as a function of the lines, the delivery method and the
\* discount alone.
TotalsOf(L, method, discount) ==
    LET subtotal == SumLines(L)
        shipping == IF subtotal >= FREE_SHIPPING_THRESHOLD /\ method = "standard" THEN 0
                    ELSE IF method = "express" THEN ExpressRate
                    ELSE IF method = "same-day" THEN SameDayRate
                    ELSE IF method = "pudo" THEN PudoRate
                    ELSE StandardRate
        tax == RoundHalfEven((subtotal - discount) * VatPercent, 100)
    IN  <<subtotal, shipping, tax, subtotal + shipping + tax - discount>>

CartMoney(cart) == <<cart.subtotal, cart.shipping, cart.tax, cart.total>>

update_stock(u, h, p, stockQuantity, inStock) ==
    LET company == get_company_from_request(Req(u, h))
    IN  IF p \notin filter_by_company(company)
        THEN /\ resp' = Response("update_stock", Req(u, h), company, "NOT_FOUND", {})
             /\ UNCHANGED <<tenancy, db, shop, payment>>
        ELSE IF ~has_object_permission(u, products[p].company)
        THEN /\ resp' = Response("update_stock", Req(u, h), company, "FORBIDDEN", {})
             /\ UNCHANGED <<tenancy, db, shop, payment>>
        ELSE /\ products' = [products EXCEPT
                    ![p].stock_quantity = IF stockQuantity # None THEN stockQuantity ELSE @,
                    ![p].in_stock = IF inStock # None THEN inStock[1] ELSE @]
             /\ resp' = Response("update_stock", Req(u, h), company, "OK", {p})
             /\ UNCHANGED <<tenancy, carts, orders, shop, payment>>

\* The bodies of update_stock: each key absent or present.
StockBodies == [stockQuantity : {None} \cup {Some(n) : n \in 0..1},
                inStock : {None, Some(TRUE), Some(FALSE)}]

\* The catalog of the cart specification, both products tracking inventory
\* with a stock of MaxStock.
StockCatalog ==
    [p \in Products |-> [CartCatalog[p] EXCEPT !.track_inventory = TRUE,
                                               !.stock_quantity = Some(MaxStock)]]

InitStock ==
    /\ InitTenancy
    /\ products = StockCatalog
    /\ ledger = [p \in Products |-> [initial |-> 0, sold |-> 0]]
    /\ carts = [k \in CartIds |-> NoCart]
    /\ orders = [o \in OrderIds |-> NoOrder]
    /\ checkout = [u \in Users |-> Idle]
    /\ created = 0
    /\ InitPaymentIdle
    /\ resp = NoResp

NextStock ==
    \/ \E r \in Staff, p \in Products, q \in 1..MaxQty : add_item(r.user, r.header, p, q)
    \/ \E r \in Staff, p \in Products, q \in 0..MaxQty : update_item(r.user, r.header, p, q)
    \/ \E r \in Staff, p \in Products, body \in StockBodies :
          update_stock(r.user, r.header, p, body.stockQuantity, body.inStock)

SpecStock == InitStock /\ [][NextStock]_vars

\* C18: an add_item or update_item call that reaches the stock rules fails
\* with OUT_OF_STOCK when the product's availability flag is false, and with
\* INSUFFICIENT_STOCK when the product tracks inventory and the resulting
\* line quantity (the requested quantity, or for add_item the existing
\* quantity plus the requested one) exceeds its stock_quantity; on every
\* such failure the carts are unchanged.
C18_SameStockRules ==
    [][\A r \in Staff, p \in Products, q \in 1..MaxQty :
          LET company == get_company_from_request(r)
              mine == CartFor(company, r.user)
              held == {k \in CartIds : carts[k].exists /\ carts[k].company = company}
              adds == resp'.op = "add_item" /\ add_item(r.user, r.header, p, q)
              updates == /\ resp'.op = "update_item"
                         /\ mine \in CartIds
                         /\ carts[mine].items[p].quantity > 0
                         /\ update_item(r.user, r.header, p, q)
              resulting == IF resp'.op = "add_item"
                           THEN q + SumOver([k \in CartIds |-> carts[k].items[p].quantity], held)
                           ELSE q
          IN  (company # NoCompany /\ products[p].company = company /\ (adds \/ updates))
              => /\ ~products[p].in_stock => resp'.code = "OUT_OF_STOCK"
                 /\ (/\ products[p].in_stock
                     /\ products[p].track_inventory
                     /\ products[p].stock_quantity # None
                     /\ resulting > products[p].stock_quantity[1])
                       => resp'.code = "INSUFFICIENT_STOCK"
                 /\ resp'.code \in {"OUT_OF_STOCK", "INSUFFICIENT_STOCK"} => carts' = carts]_vars


\* No two carts of the same tenant and the same identity.
OneCartPerIdentity ==
    \A k1 \in CartIds : \A k2 \in CartIds :
        (/\ carts[k1].exists /\ carts[k2].exists
         /\ carts[k1].company = carts[k2].company
         /\ carts[k1].user = carts[k2].user) => k1 = k2

\* C19: in every reachable state there is at most one cart per (tenant,
\* identity), and get_my_cart called by an identity that has no cart in the
\* tenant creates an empty cart keyed to that tenant and that identity and
\* returns it.
C19_OneCartPerIdentity ==
    /\ []OneCartPerIdentity
    /\ [][\A r \in Staff :
             LET company == get_company_from_request(r)
             IN  (/\ resp'.op = "get_my_cart"
                  /\ company # NoCompany
                  /\ CartsOf(company, r.user) = {}
                  /\ get_my_cart(r.user, r.header))
                 => \E k \in CartIds :
                       /\ ~carts[k].exists
                       /\ carts'[k].exists
                       /\ carts'[k].company = company
                       /\ carts'[k].user = r.user
                       /\ Lines(carts'[k].items) = {}
                       /\ resp'.code = "OK"
                       /\ resp'.out = {k}]_vars


\* ------------------------------------------------------------ price snapshots
\* The owner of c1 fills a cart with the tracked product, changes the
\* product's price, checks out and operates on the orders, over the catalog
\* of the cart specification.
NextSnapshot ==
    \/ \E p \in Tracked, q \in 1..MaxQty : add_item("alice", Absent, p, q)
    \/ \E p \in Tracked, q \in 1..MaxQty : update_item("alice", Absent, p, q)
    \/ \E p \in Tracked : remove_item("alice", Absent, p)
    \/ \E p \in Tracked, price \in NewPrices : product_partial_update("alice", Absent, p, price)
    \/ create_from_cart_validate("alice", Absent)
    \/ create_from_cart_atomic("alice")
    \/ \E o \in OrderIds : cancel_order("alice", Absent, o, TRUE)
    \/ \E o \in OrderIds, body \in OrderBodies : order_partial_update("alice", Absent, o, body)
    \/ \E o \in OrderIds : destroy_order("alice", Absent, o)

SpecSnapshot == InitCart /\ [][NextSnapshot]_vars

\* C20: while a cart line exists its unit price does not change, and while
\* an order exists the price and quantity (and so the subtotal) of each of
\* its items do not change and no item is added or removed, whatever the
\* operation and whatever the product's current price.
C20_SnapshotsFrozen ==
    [][/\ \A k \in CartIds : \A p \in Products :
             (/\ carts[k].exists /\ carts'[k].exists
              /\ carts[k].items[p].quantity > 0
              /\ carts'[k].items[p].quantity > 0)
             => carts'[k].items[p].price = carts[k].items[p].price
       /\ \A o \in OrderIds :
             (orders[o].exists /\ orders'[o].exists)
             => /\ orders'[o].items = orders[o].items
                /\ \A p \in Products :
                      LineSubtotal(orders'[o].items[p]) = LineSubtotal(orders[o].items[p])]_vars

\* C20 witness: a cart line and an order item of p1 both carry a unit price
\* that is no longer the product's price, and more of p1 was just added to
\* the cart.
C20_Witness ==
    /\ resp.op = "add_item"
    /\ resp.code = "OK"
    /\ \E k \in resp.out :
          /\ carts[k].items["p1"].quantity > 1
          /\ carts[k].items["p1"].price # products["p1"].price
    /\ \E o \in OrderIds :
          /\ orders[o].exists
          /\ orders[o].items["p1"].quantity > 0
          /\ orders[o].items["p1"].price # products["p1"].price


\* ------------------------------------------------------------ gateway and courier calls
\* C21: create_checkout is refused unless the order is pending; the order
\* changes only by receiving the session id of a successful gateway answer;
\* and when the secret key is not configured or the gateway call fails the
\* caller gets an error and the order is unchanged.
C21_CheckoutGuards ==
    [][\A r \in Staff, valid \in BOOLEAN, answer \in SessionIds \cup {"http_error"} :
          (/\ resp'.op = "create_checkout"
           /\ create_checkout(r.user, r.header, "o1", valid, answer))
          => /\ orders["o1"].status # "pending"
                  => resp'.code # "OK" /\ orders' = orders
             /\ orders' # orders
                  => /\ resp'.code = "OK"
                     /\ answer \in SessionIds
                     /\ orders' = [orders EXCEPT !["o1"].yoco_checkout_id = answer]
             /\ (\/ ~integration[get_company_from_request(r)].exists
                 \/ ~integration[get_company_from_request(r)].yoco_secret_key
                 \/ answer = "http_error")
                  => resp'.code # "OK" /\ orders' = orders]_vars

\* C21 witness: create_checkout stored the session id the gateway returned
\* on a pending order.
C21_Witness ==
    /\ resp.op = "create_checkout"
    /\ resp.code = "OK"
    /\ orders["o1"].status = "pending"
    /\ orders["o1"].yoco_checkout_id \in SessionIds

\* C21 witness of the refusals: create_checkout answered ORDER_ALREADY_PAID
\* for an order that is no longer pending.
C21_RefusedWitness ==
    /\ resp.op = "create_checkout"
    /\ resp.code = "ORDER_ALREADY_PAID"
    /\ orders["o1"].status # "pending"


\* The courier columns and the timestamps of an order.
CourierAndStamps(order) ==
    <<order.status, order.waybill_number, order.tracking_number, order.collection_code,
      order.paid_at, order.shipped_at, order.delivered_at, order.cancelled_at>>

\* C22: create_shipment is refused unless the order is paid; on a successful
\* courier answer the order stores the waybill and becomes shipped; when the
\* courier call fails the caller gets an error and the order's status,
\* courier fields and timestamps are unchanged.
C22_ShipmentGuards ==
    [][\A r \in Staff, valid \in BOOLEAN, answer \in {"wb1", "http_error"} :
          (/\ resp'.op = "create_shipment"
           /\ create_shipment(r.user, r.header, "o1", valid, answer))
          => /\ orders["o1"].status # "paid"
                  => resp'.code # "OK" /\ orders' = orders
             /\ resp'.code = "OK"
                  => /\ answer = "wb1"
                     /\ orders'["o1"].waybill_number = answer
                     /\ orders'["o1"].tracking_number = CourierAnswer(answer).tracking_number
                     /\ orders'["o1"].collection_code = CourierAnswer(answer).collection_code
                     /\ orders'["o1"].status = "shipped"
                     /\ orders'["o1"].shipped_at # None
             /\ answer = "http_error"
                  => /\ resp'.code # "OK"
                     /\ CourierAndStamps(orders'["o1"]) = CourierAndStamps(orders["o1"])]_vars

\* C22 witness: a paid order was shipped with the courier's waybill.
C22_Witness ==
    /\ resp.op = "create_shipment"
    /\ resp.code = "OK"
    /\ orders["o1"].status = "shipped"
    /\ orders["o1"].waybill_number = "wb1"
    /\ orders["o1"].tracking_number # "NULL"
    /\ orders["o1"].collection_code # "NULL"
    /\ orders["o1"].paid_at # None

\* C22 witness of the failure: the courier call failed for a paid order.
C22_FailedWitness ==
    /\ resp.op = "create_shipment"
    /\ resp.code = "COURIER_CONFIG_ERROR"
    /\ orders["o1"].status = "paid"
    /\ integration["c1"].courier_guy_api_key


\* ------------------------------------------------------------ credential resolution
\* The singleton row of the table that migration 0003 creates
\* (GlobalIntegrationSettings); no code of the services reads it.
GlobalRow == "global"

\* The payment specification's database with every combination of tenant
\* settings for c1 and of global settings.
InitCredentials ==
    /\ InitTenancy
    /\ \E q \in 1..MaxQty :
          /\ products = AfterCheckout(q).products
          /\ carts = AfterCheckout(q).carts
          /\ orders = AfterCheckout(q).orders
          /\ ledger = [p \in Products |->
                         IF p = "p1" THEN [initial |-> MaxStock, sold |-> q]
                         ELSE [initial |-> 0, sold |-> 0]]
    /\ checkout = [u \in Users |-> Idle]
    /\ created = 1
    /\ integration \in [Companies \cup {GlobalRow} -> Configurations]
    /\ integration["c2"] = NoSettings
    /\ clock = 0
    /\ gateway = NoGateway
    /\ resp = NoResp

NextCredentials ==
    \/ \E r \in Staff, valid \in BOOLEAN, answer \in SessionIds \cup {"http_error"} :
          create_checkout(r.user, r.header, "o1", valid, answer)
    \/ \E r \in Staff, s \in {"pending", "paid"} : update_status(r.user, r.header, "o1", s)
    \/ \E r \in Staff, valid \in BOOLEAN, answer \in {"wb1", "http_error"} :
          create_shipment(r.user, r.header, "o1", valid, answer)

SpecCredentials == InitCredentials /\ [][NextCredentials]_vars

\* The key a tenant resolves to: its own when set, else the global one.
Supplied(company, key) == integration[company][key] \/ integration[GlobalRow][key]

\* C23: a gateway or courier call for a tenant uses the tenant's own key when
\* it is set and otherwise the global one, so with an answering provider the
\* call succeeds whenever either record supplies the key, and the
\* not-configured error is produced only when neither does.
C23_CredentialFallback ==
    [][\A r \in Staff :
          /\ \A answer \in SessionIds :
                (/\ resp'.op = "create_checkout"
                 /\ orders["o1"].status = "pending"
                 /\ create_checkout(r.user, r.header, "o1", TRUE, answer))
                => /\ Supplied("c1", "yoco_secret_key") => resp'.code = "OK"
                   /\ resp'.code = "YOCO_CONFIG_ERROR" => ~Supplied("c1", "yoco_secret_key")
          /\ (/\ resp'.op = "create_shipment"
              /\ orders["o1"].status = "paid"
              /\ create_shipment(r.user, r.header, "o1", TRUE, "wb1"))
             => /\ Supplied("c1", "courier_guy_api_key") => resp'.code = "OK"
                /\ resp'.code = "COURIER_CONFIG_ERROR"
                      => ~Supplied("c1", "courier_guy_api_key")]_vars


\* ------------------------------------------------------------ order numbers
\* The number ORD-<year>-<sequence:04d> of the current year, written with Y
\* for the year, and the sequence an order number carries (0 for a number
\* that is not of that form).
OrderNumberOf(sequence) ==
    CASE sequence = 1 -> "ORD-Y-0001"
      [] sequence = 2 -> "ORD-Y-0002"
      [] OTHER -> "ORD-Y-0003"

SequenceOf(number) ==
    CASE number = "ORD-Y-0001" -> 1
      [] number = "ORD-Y-0002" -> 2
      [] number = "ORD-Y-0003" -> 3
      [] OTHER -> 0

RECURSIVE HighestSequence(_, _)
HighestSequence(company, S) ==
    IF S = {} THEN 0
    ELSE LET o == CHOOSE o \in S : TRUE
             rest == HighestSequence(company, S \ {o})
             mine == IF orders[o].exists /\ orders[o].company = company
                     THEN SequenceOf(orders[o].order_number) ELSE 0
         IN  IF mine > rest THEN mine ELSE rest

\* C24: every order created by create_from_cart receives the order number
\* ORD-<year>-<sequence> whose sequence is one greater than the tenant's
\* highest existing sequence, unique within the tenant, and the tenant's
\* second and later orders receive one too (no creation is refused at the
\* insert of the order row).
C24_OrderNumbers ==
    [][\A u \in Users :
          RanAtomicBlock(u)
          => /\ resp'.out # {"insert"}
             /\ resp'.code = "CREATED"
                  => \E o \in OrderIds :
                        /\ ~orders[o].exists /\ orders'[o].exists
                        /\ orders'[o].order_number
                              = OrderNumberOf(HighestSequence(checkout[u].company, OrderIds) + 1)
                        /\ \A x \in OrderIds \ {o} :
                              (orders'[x].exists /\ orders'[x].company = orders'[o].company)
                              => orders'[x].order_number # orders'[o].order_number]_vars

\* The tenant's second order is created.
C24_SecondOrder == [][\A u \in Users : RanAtomicBlock(u) => resp'.out # {"insert"}]_vars


\* ------------------------------------------------------------ CRM company API
\* Every Company row, whoever asks.
every_company(u) == {i \in CrmIds : crm.companies[i].exists}

\* CompanyViewSet.get_queryset: all rows for a superuser or a chief, the
\* rows whose owner is in one of the user's groups for a user with groups,
\* the user's own rows otherwise.
get_queryset(u) ==
    IF u \in is_superuser \/ u \in crm.is_chief
    THEN {i \in CrmIds : crm.companies[i].exists}
    ELSE IF crm.groups[u] # {}
    THEN {i \in CrmIds : /\ crm.companies[i].exists
                         /\ crm.companies[i].owner \in Users
                         /\ crm.groups[crm.companies[i].owner] \cap crm.groups[u] # {}}
    ELSE {i \in CrmIds : crm.companies[i].exists /\ crm.companies[i].owner = u}

CrmRespond(op, u, code, out) ==
    /\ resp' = Response(op, Req(u, Absent), NoCompany, code, out)
    /\ UNCHANGED <<tenancy, db, shop, payment>>

\* GET /api/companies/
company_list(u) == CrmRespond("company_list", u, "OK", get_queryset(u))

\* GET /api/companies/{id}/: get_object over get_queryset; IsDepartmentMember
\* has no object-level test.
company_retrieve(u, i) ==
    IF i \notin get_queryset(u) THEN CrmRespond("company_retrieve", u, "NOT_FOUND", {})
    ELSE CrmRespond("company_retrieve", u, "OK", {i})

\* PATCH /api/companies/{id}/ with a full_name
company_partial_update(u, i, full_name) ==
    IF i \notin get_queryset(u) THEN CrmRespond("company_partial_update", u, "NOT_FOUND", {})
    ELSE /\ crm' = [crm EXCEPT !.companies[i].full_name = full_name]
         /\ resp' = Response("company_partial_update", Req(u, Absent), NoCompany, "OK", {i})
         /\ UNCHANGED <<owner, users, is_superuser, db, shop, payment>>

\* DELETE /api/companies/{id}/
company_destroy(u, i) ==
    IF i \notin get_queryset(u) THEN CrmRespond("company_destroy", u, "NOT_FOUND", {})
    ELSE /\ crm' = [crm EXCEPT !.companies[i] = NoCrmCompany]
         /\ resp' = Response("company_destroy", Req(u, Absent), NoCompany, "OK", {i})
         /\ UNCHANGED <<owner, users, is_superuser, db, shop, payment>>

\* alice owns m1 and bob owns m2; alice, bob and carol are in any groups,
\* carol may be a chief, root is a superuser.
InitCrm ==
    /\ owner = [c \in Companies |-> IF c = "c1" THEN "alice" ELSE "bob"]
    /\ users = [c \in Companies |-> IF c = "c1" THEN {"bob"} ELSE {"alice"}]
    /\ is_superuser = {"root"}
    /\ \E g \in [{"alice", "bob", "carol"} -> SUBSET Groups], chiefs \in SUBSET {"carol"} :
          crm = [companies |-> [i \in CrmIds |->
                                  [exists |-> TRUE,
                                   owner |-> IF i = "m1" THEN "alice" ELSE "bob",
                                   full_name |-> "Company"]],
                 groups |-> [u \in Users |-> IF u = "root" THEN {} ELSE g[u]],
                 is_chief |-> chiefs]
    /\ InitCatalog(MaxStock)
    /\ carts = [k \in CartIds |-> NoCart]
    /\ orders = [o \in OrderIds |-> NoOrder]
    /\ checkout = [u \in Users |-> Idle]
    /\ created = 0
    /\ InitPaymentIdle
    /\ resp = NoResp

NextCrm ==
    \/ \E u \in Users : company_list(u)
    \/ \E u \in Users, i \in CrmIds : company_retrieve(u, i)
    \/ \E u \in Users, i \in CrmIds : company_partial_update(u, i, "Hacked Name")
    \/ \E u \in Users, i \in CrmIds : company_destroy(u, i)

SpecCrm == InitCrm /\ [][NextCrm]_vars

CrmOps == {"company_list", "company_retrieve", "company_partial_update", "company_destroy"}

\* The companies a caller who is neither superuser nor chief shares: the
\* caller's own when the caller is in no group, else those whose owner is in
\* a group of the caller.
Shared(u) ==
    {i \in CrmIds : /\ crm.companies[i].exists
                    /\ IF crm.groups[u] = {} THEN crm.companies[i].owner = u
                       ELSE \E g \in crm.groups[u] : g \in crm.groups[crm.companies[i].owner]}

C26_StockAfterCheckout ==
    [][\A u \in Shoppers :
          (/\ resp'.op = "create_from_cart"
           /\ resp'.code = "CREATED"
           /\ resp'.req.user = u
           /\ checkout[u].pc = "validated")
          => \A p \in Products :
                IF p \in Lines(carts[checkout[u].id].items) /\ products[p].track_inventory
                THEN /\ products[p].stock_quantity # None
                     /\ products'[p].stock_quantity =
                           Some(products[p].stock_quantity[1]
                                - carts[checkout[u].id].items[p].quantity)
                     /\ products'[p].in_stock = (products'[p].stock_quantity # Some(0))
                ELSE /\ products'[p].stock_quantity = products[p].stock_quantity
                     /\ products'[p].in_stock = products[p].in_stock]_vars


\* ------------------------------------------------------------ C27
\* C27: a get_my_cart or add_item request of one authenticated user never
\* returns, and never changes the lines or totals of, a cart owned by another
\* user of the same tenant.
C27_CartsArePrivate ==
    [][\A a \in Users :
          (resp'.op \in {"get_my_cart", "add_item"} /\ resp'.req.user = a)
          => \A k \in CartIds :
                (carts[k].exists /\ carts[k].user \in Users \ {a})
                => /\ k \notin resp'.out
                   /\ carts'[k] = carts[k]]_vars


\* ------------------------------------------------------------ C28
\* C28: a payment.succeeded webhook that arrives after its order has left
\* the pending state (cancelled, shipped, delivered, ...) never sets the
\* order's status to paid.
C28_LatePaymentIgnored ==
    [][\A o \in OrderIds :
          (/\ resp'.op = "handle_webhook"
           /\ orders[o].exists
           /\ orders[o].status \notin {"pending", "paid"})
          => orders'[o].status # "paid"]_vars


\* No webhook has left a cancelled order, whose stock cancel_order put back,
\* in status paid.
C28_NoPaidAfterCancel ==
    ~ \E o \in OrderIds :
         /\ resp.op = "handle_webhook"
         /\ o \in resp.out
         /\ orders[o].status = "paid"
         /\ orders[o].cancelled_at # None
         /\ \A p \in Lines(orders[o].items) :
               products[p].stock_quantity = Some(ledger[p].initial)


\* ------------------------------------------------------------ C29
\* C29: whatever cancel_order, update_status and update_payment requests
\* follow the checkout, the quantity put back into a product's stock for the
\* order never exceeds the quantity the checkout took out of it: the stock
\* never rises above what it was before the checkout.
C29_RestoreBounded ==
    \A p \in Products :
        products[p].stock_quantity # None
            => products[p].stock_quantity[1] <= ledger[p].initial


\* ------------------------------------------------------------ C30
\* C30: a payment.succeeded webhook that carries a checkout-session id
\* create_checkout returned for the pending order, a valid signature and the
\* order's total as amount marks the order paid, also when create_checkout
\* was called again for the order in between.
C30_IssuedSessionPays ==
    [][\A ev \in Events :
          (/\ ev.event = "payment.succeeded"
           /\ ev.checkoutId \in gateway.issued
           /\ ev.amount = Number(orders["o1"].total)
           /\ orders["o1"].status = "pending"
           /\ integration["c1"].yoco_webhook_secret
           /\ handle_webhook(ev, "valid"))
          => /\ orders'["o1"].status = "paid"
             /\ orders'["o1"].payment_status = "completed"]_vars

====
